---------------------------- MODULE Spec2Model ----------------------------
(***************************************************************************)
(* Browser Interceptor: the request pipeline of the service worker         *)
(* (handleRequest), the handler registry (HandlerManager and the built-in  *)
(* handlers) and the storage manager (updateCapturedItem, addToHistory,    *)
(* addToExpiredTokens) over chrome.storage.local.                          *)
(*                                                                         *)
(* JavaScript strings that the code inspects or builds (header names and   *)
(* values, paths, host names, identity keys) are sequences of one-         *)
(* character strings.  Tags the code only compares as a whole ('active',   *)
(* 'capture', 'bearer') are TLA+ strings.  A JavaScript object is a        *)
(* function whose DOMAIN is the set of its own properties; a property      *)
(* whose value is undefined is absent, which is also how                   *)
(* chrome.storage.local persists it.                                       *)
(*                                                                         *)
(* An async function is a process whose program counter names the storage  *)
(* call it is suspended on.  One action is the completion of that call     *)
(* followed by the synchronous code up to the next storage call.           *)
(***************************************************************************)
EXTENDS Integers, Sequences, FiniteSets, TLC

VARIABLES
    capturedData,   \* chrome.storage.local 'capturedData': key -> entry
    expiredTokens,  \* chrome.storage.local 'expiredTokens': list, newest first
    history,        \* chrome.storage.local 'history': list, newest first
    apiTracker,     \* chrome.storage.local 'apiTracker': page domain -> bucket
    config,         \* chrome.storage.local 'config'
    clock,          \* the last value Date.now() returned
    handlers,       \* handlerManager.handlers
    customHandlers, \* handlerManager.customHandlers
    isEnabled,      \* service-worker.js module variable
    proc,           \* the async calls in flight, one record per process
    sent,           \* chrome.runtime.sendMessage calls, oldest first
    notified,       \* chrome.notifications.create calls, oldest first
    apiQueue,       \* handleApiMonitoring calls started and not awaited
    initializing,   \* initialize() calls suspended on getConfig
    pre,            \* per process: the store when its current update began
    batch,          \* the store when the calls now overlapping began, and
                    \* the updates each process has made since
    calls,          \* number of top-level calls started so far
    faults          \* number of storage calls that have failed so far

vars == <<capturedData, expiredTokens, history, apiTracker, config, clock,
          handlers, customHandlers, isEnabled, proc, sent, notified, apiQueue,
          initializing, pre, batch, calls, faults>>

-----------------------------------------------------------------------------
(* Strings *)

Digits == {"0", "1", "2", "3", "4", "5", "6", "7", "8", "9"}
LowerLetters == {"a", "b", "c", "d", "e", "f", "g", "h", "i", "j", "k", "l", "m",
                 "n", "o", "p", "q", "r", "s", "t", "u", "v", "w", "x", "y", "z"}
UpperLetters == {"A", "B", "C", "D", "E", "F", "G", "H", "I", "J", "K", "L", "M",
                 "N", "O", "P", "Q", "R", "S", "T", "U", "V", "W", "X", "Y", "Z"}
HexLetters == {"a", "b", "c", "d", "e", "f", "A", "B", "C", "D", "E", "F"}

LowerOf == [c \in UpperLetters |->
    CASE c = "A" -> "a" [] c = "B" -> "b" [] c = "C" -> "c" [] c = "D" -> "d"
      [] c = "E" -> "e" [] c = "F" -> "f" [] c = "G" -> "g" [] c = "H" -> "h"
      [] c = "I" -> "i" [] c = "J" -> "j" [] c = "K" -> "k" [] c = "L" -> "l"
      [] c = "M" -> "m" [] c = "N" -> "n" [] c = "O" -> "o" [] c = "P" -> "p"
      [] c = "Q" -> "q" [] c = "R" -> "r" [] c = "S" -> "s" [] c = "T" -> "t"
      [] c = "U" -> "u" [] c = "V" -> "v" [] c = "W" -> "w" [] c = "X" -> "x"
      [] c = "Y" -> "y" [] c = "Z" -> "z"]

\* String.prototype.toLowerCase
toLowerCase(s) ==
    [i \in 1..Len(s) |-> IF s[i] \in UpperLetters THEN LowerOf[s[i]] ELSE s[i]]

\* String.prototype.startsWith
startsWith(s, prefix) ==
    /\ Len(prefix) <= Len(s)
    /\ SubSeq(s, 1, Len(prefix)) = prefix

\* String.prototype.substring(n): the characters from 0-based index n on
substring(s, n) == SubSeq(s, n + 1, Len(s))

\* The 1-based places of character ch in s, and the first of them from `from` on
IndexFrom(s, ch, from) ==
    LET hits == {i \in from..Len(s) : s[i] = ch}
    IN  IF hits = {} THEN 0 ELSE CHOOSE i \in hits : \A j \in hits : i <= j

\* String.prototype.split(ch) for a one-character separator
RECURSIVE split(_, _)
split(s, ch) ==
    LET i == IndexFrom(s, ch, 1)
    IN  IF i = 0 THEN <<s>>
        ELSE <<SubSeq(s, 1, i - 1)>> \o split(SubSeq(s, i + 1, Len(s)), ch)

\* Array.prototype.join(ch)
RECURSIVE join(_, _)
join(parts, ch) ==
    IF Len(parts) = 0 THEN << >>
    ELSE IF Len(parts) = 1 THEN parts[1]
    ELSE parts[1] \o <<ch>> \o join(Tail(parts), ch)

Range(f) == {f[x] : x \in DOMAIN f}

\* Object spread {...a, ...b}: b's properties win
Spread(a, b) ==
    [f \in DOMAIN a \cup DOMAIN b |-> IF f \in DOMAIN b THEN b[f] ELSE a[f]]

\* The object holding the listed properties of r that are defined
Pick(r, fields) == [f \in fields \cap DOMAIN r |-> r[f]]

\* String.prototype.includes
includes(s, sub) ==
    \E i \in 1..(Len(s) - Len(sub) + 1) : SubSeq(s, i, i + Len(sub) - 1) = sub

\* String.prototype.trim (the whitespace of the bounded inputs is the space)
RECURSIVE trimStart(_)
trimStart(s) ==
    IF Len(s) > 0 /\ s[1] = " " THEN trimStart(Tail(s)) ELSE s

RECURSIVE trimEnd(_)
trimEnd(s) ==
    IF Len(s) > 0 /\ s[Len(s)] = " " THEN trimEnd(SubSeq(s, 1, Len(s) - 1)) ELSE s

trim(s) == trimEnd(trimStart(s))

\* null, and the test for it
Null == [null |-> TRUE]
IsNull(x) == "null" \in DOMAIN x

\* The completion of a call that threw
Threw == [threw |-> TRUE]
IsThrow(x) == "threw" \in DOMAIN x

-----------------------------------------------------------------------------
(* String literals of the source *)

DefaultHeaderPatterns ==
    << <<"a", "u", "t", "h", "o", "r", "i", "z", "a", "t", "i", "o", "n">>,
       <<"x", "-", "a", "u", "t", "h", "-", "t", "o", "k", "e", "n">>,
       <<"x", "-", "a", "c", "c", "e", "s", "s", "-", "t", "o", "k", "e", "n">>,
       <<"x", "-", "a", "p", "i", "-", "k", "e", "y">>,
       <<"a", "p", "i", "-", "k", "e", "y">>,
       <<"x", "-", "t", "o", "k", "e", "n">>,
       <<"t", "o", "k", "e", "n">>,
       <<"x", "-", "s", "e", "s", "s", "i", "o", "n", "-", "t", "o", "k", "e", "n">>,
       <<"x", "-", "c", "s", "r", "f", "-", "t", "o", "k", "e", "n">>,
       <<"x", "-", "x", "s", "r", "f", "-", "t", "o", "k", "e", "n">> >>
DefaultCookiePatterns ==
    << <<"s", "e", "s", "s", "i", "o", "n">>,
       <<"s", "e", "s", "s", "i", "o", "n", "i", "d">>,
       <<"s", "e", "s", "s", "i", "o", "n", "_", "i", "d">>,
       <<"s", "i", "d">>,
       <<"a", "u", "t", "h">>,
       <<"a", "u", "t", "h", "_", "t", "o", "k", "e", "n">>,
       <<"t", "o", "k", "e", "n">>,
       <<"j", "w", "t">>,
       <<"a", "c", "c", "e", "s", "s", "_", "t", "o", "k", "e", "n">>,
       <<"r", "e", "f", "r", "e", "s", "h", "_", "t", "o", "k", "e", "n">>,
       <<"_", "_", "s", "e", "s", "s", "i", "o", "n">>,
       <<"_", "s", "e", "s", "s", "i", "o", "n">>,
       <<"c", "o", "n", "n", "e", "c", "t", ".", "s", "i", "d">>,
       <<"P", "H", "P", "S", "E", "S", "S", "I", "D">>,
       <<"J", "S", "E", "S", "S", "I", "O", "N", "I", "D">>,
       <<"A", "S", "P", ".", "N", "E", "T", "_", "S", "e", "s", "s", "i", "o", "n", "I", "d">> >>
CookiePriority ==
    << <<"s", "e", "s", "s", "i", "o", "n">>,
       <<"a", "u", "t", "h">>,
       <<"t", "o", "k", "e", "n">>,
       <<"j", "w", "t">>,
       <<"a", "c", "c", "e", "s", "s", "_", "t", "o", "k", "e", "n">> >>
DefaultParamPatterns ==
    << <<"a", "p", "i", "_", "k", "e", "y">>,
       <<"a", "p", "i", "k", "e", "y">>,
       <<"a", "p", "i", "-", "k", "e", "y">>,
       <<"k", "e", "y">>,
       <<"t", "o", "k", "e", "n">>,
       <<"a", "c", "c", "e", "s", "s", "_", "t", "o", "k", "e", "n">>,
       <<"a", "u", "t", "h", "_", "t", "o", "k", "e", "n">>,
       <<"a", "u", "t", "h">>,
       <<"s", "e", "c", "r", "e", "t">>,
       <<"a", "p", "i", "_", "s", "e", "c", "r", "e", "t">>,
       <<"c", "l", "i", "e", "n", "t", "_", "i", "d">>,
       <<"c", "l", "i", "e", "n", "t", "_", "s", "e", "c", "r", "e", "t">> >>
ParamPriority ==
    << <<"a", "p", "i", "_", "k", "e", "y">>,
       <<"a", "p", "i", "k", "e", "y">>,
       <<"t", "o", "k", "e", "n">>,
       <<"a", "c", "c", "e", "s", "s", "_", "t", "o", "k", "e", "n">>,
       <<"k", "e", "y">> >>
str_bearer_sp == <<"b", "e", "a", "r", "e", "r", " ">>
str_authorization == <<"a", "u", "t", "h", "o", "r", "i", "z", "a", "t", "i", "o", "n">>
str_cookie == <<"c", "o", "o", "k", "i", "e">>
str_unknown == <<"u", "n", "k", "n", "o", "w", "n">>
str_auth_token == <<"a", "u", "t", "h", "-", "t", "o", "k", "e", "n">>
str_Auth_Token == <<"A", "u", "t", "h", " ", "T", "o", "k", "e", "n">>
str_query_param == <<"q", "u", "e", "r", "y", "-", "p", "a", "r", "a", "m">>
str_Query_Param == <<"Q", "u", "e", "r", "y", " ", "P", "a", "r", "a", "m">>
str_Session_Cookie == <<"S", "e", "s", "s", "i", "o", "n", " ", "C", "o", "o", "k", "i", "e">>
str_custom == <<"c", "u", "s", "t", "o", "m">>
str_Custom_Rule == <<"C", "u", "s", "t", "o", "m", " ", "R", "u", "l", "e">>
str_sep == <<":", ":">>
str_star == <<"*">>
str_Authorization == <<"A", "u", "t", "h", "o", "r", "i", "z", "a", "t", "i", "o", "n">>
str_Bearer_abc123 == <<"B", "e", "a", "r", "e", "r", " ", "a", "b", "c", "1", "2", "3">>
str_Bearer_xyz789 == <<"B", "e", "a", "r", "e", "r", " ", "x", "y", "z", "7", "8", "9">>
str_abc123 == <<"a", "b", "c", "1", "2", "3">>
str_xyz789 == <<"x", "y", "z", "7", "8", "9">>
str_api_example_com == <<"a", "p", "i", ".", "e", "x", "a", "m", "p", "l", "e", ".", "c", "o", "m">>
str_v1_users_123 == <<"/", "v", "1", "/", "u", "s", "e", "r", "s", "/", "1", "2", "3">>
str_key_example == <<"a", "p", "i", ".", "e", "x", "a", "m", "p", "l", "e", ".", "c", "o", "m", ":", ":", "/", "v", "1", "/", "u", "s", "e", "r", "s", "/", "*", ":", ":", "a", "u", "t", "h", "-", "t", "o", "k", "e", "n", ":", ":", "A", "u", "t", "h", "o", "r", "i", "z", "a", "t", "i", "o", "n">>
str_https == <<"h", "t", "t", "p", "s">>
str_GET == <<"G", "E", "T">>

-----------------------------------------------------------------------------
(* Requests.  details.url is kept parsed: `valid` says whether new URL(url)   *)
(* succeeds, and the parts are those the URL parser returns.                 *)

\* The text of a URL, for the tests the code makes on details.url itself
Href(url) ==
    LET q(i) == url.search[i][1] \o <<"=">> \o url.search[i][2]
        qs == [i \in 1..Len(url.search) |-> q(i)]
    IN  url.scheme \o <<":", "/", "/">> \o url.hostname \o url.pathname
        \o (IF Len(url.search) = 0 THEN << >> ELSE <<"?">> \o join(qs, "&"))

\* BaseHandler.parseUrl
parseUrl(url) == IF url.valid THEN url ELSE Null

\* URLSearchParams.has / get
searchParamsHas(url, name) == \E i \in 1..Len(url.search) : url.search[i][1] = name

searchParamsGet(url, name) ==
    LET hits == {i \in 1..Len(url.search) : url.search[i][1] = name}
    IN  IF hits = {} THEN Null
        ELSE [value |-> url.search[CHOOSE i \in hits : \A j \in hits : i <= j][2]]

\* BaseHandler.getHeader: the first header of that name, case-insensitive.
\* The result is Null, or a record holding `value` when the header has one.
getHeader(headers, name) ==
    LET hits == {i \in 1..Len(headers) :
                    toLowerCase(headers[i].name) = toLowerCase(name)}
        first == CHOOSE i \in hits : \A j \in hits : i <= j
    IN  IF hits = {} THEN Null ELSE Pick(headers[first], {"value"})

\* A value as a condition: null, undefined and '' are falsy
Truthy(v) == ~IsNull(v) /\ "value" \in DOMAIN v /\ Len(v.value) > 0

\* new RegExp(pattern.replace(/\*/g, '.*'), 'i') matched at the start of s, for
\* patterns whose only special characters are '*' and '.'
RECURSIVE RegexMatchHere(_, _)
RegexMatchHere(pat, s) ==
    IF Len(pat) = 0 THEN TRUE
    ELSE IF pat[1] = "*"
    THEN \E k \in 0..Len(s) : RegexMatchHere(Tail(pat), SubSeq(s, k + 1, Len(s)))
    ELSE IF Len(s) = 0 THEN FALSE
    ELSE /\ \/ pat[1] = "."
            \/ toLowerCase(<<pat[1]>>) = toLowerCase(<<s[1]>>)
         /\ RegexMatchHere(Tail(pat), Tail(s))

\* RegExp.prototype.test: a match anywhere in s
RegexTest(pat, s) ==
    \E k \in 0..Len(s) : RegexMatchHere(pat, SubSeq(s, k + 1, Len(s)))

\* new RegExp(...) throws a SyntaxError: of the patterns the model draws, those
\* with a '(' that no ')' closes
RegexThrows(pattern) ==
    includes(pattern, <<"(">>) /\ ~includes(pattern, <<")">>)

\* The URL-pattern convention shared by the handlers
UrlPatternMatches(url, pattern) ==
    IF includes(pattern, str_star)
    THEN RegexTest(pattern, url)
    ELSE includes(url, toLowerCase(pattern))

UrlPatternsMatch(urlPatterns, details) ==
    Len(urlPatterns) > 0 =>
        \E i \in 1..Len(urlPatterns) :
            UrlPatternMatches(toLowerCase(Href(details.url)), urlPatterns[i])

\* urlPatterns.some(...) throws: it reaches a pattern with '*' that is no
\* regular expression before a pattern that matches
UrlPatternsThrow(urlPatterns, details) ==
    \E i \in 1..Len(urlPatterns) :
        /\ includes(urlPatterns[i], str_star)
        /\ RegexThrows(urlPatterns[i])
        /\ \A j \in 1..(i - 1) :
              /\ ~(includes(urlPatterns[j], str_star) /\ RegexThrows(urlPatterns[j]))
              /\ ~UrlPatternMatches(toLowerCase(Href(details.url)), urlPatterns[j])

\* The `source` object every handler attaches to its result
Source(details) ==
    LET parsedUrl == parseUrl(details.url)
    IN  [url |-> Href(details.url),
         domain |-> IF ~IsNull(parsedUrl) /\ Len(parsedUrl.hostname) > 0
                    THEN parsedUrl.hostname ELSE str_unknown,
         method |-> details.method,
         tabId |-> details.tabId]

-----------------------------------------------------------------------------
(* AuthTokenHandler *)

AuthTokenHandler(cfg) ==
    [kind |-> "auth-token",
     name |-> str_auth_token,
     displayName |-> str_Auth_Token,
     enabled |-> TRUE,
     headerPatterns |-> IF "headerPatterns" \in DOMAIN cfg
                        THEN cfg.headerPatterns ELSE DefaultHeaderPatterns,
     urlPatterns |-> IF "urlPatterns" \in DOMAIN cfg THEN cfg.urlPatterns ELSE << >>]

AuthMatches(h, details) ==
    /\ UrlPatternsMatch(h.urlPatterns, details)
    /\ \E i \in 1..Len(details.requestHeaders) :
          toLowerCase(details.requestHeaders[i].name) \in Range(h.headerPatterns)

\* The loop of AuthTokenHandler.extract over the headers; acc holds
\* `extracted` and `primaryToken`.  A matching header without a value makes
\* value.toLowerCase() throw.
RECURSIVE AuthScan(_, _, _)
AuthScan(h, headers, acc) ==
    IF Len(headers) = 0 \/ IsThrow(acc) THEN acc
    ELSE
      LET header == Head(headers)
          headerName == toLowerCase(header.name)
      IN  IF headerName \notin Range(h.headerPatterns)
          THEN AuthScan(h, Tail(headers), acc)
          ELSE IF "value" \notin DOMAIN header THEN Threw
          ELSE
            LET isBearer == startsWith(toLowerCase(header.value), str_bearer_sp)
                value == IF isBearer THEN substring(header.value, 7) ELSE header.value
                tokenType == IF isBearer THEN "bearer" ELSE "raw"
                entry == [value |-> value, tokenType |-> tokenType,
                          originalHeader |-> header.name]
                primary == [value |-> value, tokenType |-> tokenType,
                            headerName |-> header.name]
            IN  AuthScan(h, Tail(headers),
                    [extracted |-> Spread(acc.extracted,
                                          [n \in {headerName} |-> entry]),
                     primaryToken |->
                        IF headerName = str_authorization \/ IsNull(acc.primaryToken)
                        THEN primary ELSE acc.primaryToken])

\* The end of AuthTokenHandler.extract: the record built from what the loop
\* found
AuthResult(scan, details) ==
    IF IsThrow(scan) THEN Threw
    ELSE IF IsNull(scan.primaryToken) THEN Null
    ELSE [type |-> str_auth_token,
          value |-> scan.primaryToken.value,
          tokenType |-> scan.primaryToken.tokenType,
          headerName |-> scan.primaryToken.headerName,
          allTokens |-> scan.extracted,
          source |-> Source(details)]

AuthExtract(h, details) ==
    AuthResult(AuthScan(h, details.requestHeaders,
                        [extracted |-> << >>, primaryToken |-> Null]),
               details)

-----------------------------------------------------------------------------
(* CookieHandler *)

CookieHandler(cfg) ==
    [kind |-> "cookie",
     name |-> str_cookie,
     displayName |-> str_Session_Cookie,
     enabled |-> TRUE,
     cookiePatterns |-> IF "cookiePatterns" \in DOMAIN cfg
                        THEN cfg.cookiePatterns ELSE DefaultCookiePatterns,
     urlPatterns |-> IF "urlPatterns" \in DOMAIN cfg THEN cfg.urlPatterns ELSE << >>]

\* obj[k] = v on an object kept as the list of its <<name, value>> properties in
\* insertion order
ObjSet(obj, k, v) ==
    IF \E i \in 1..Len(obj) : obj[i][1] = k
    THEN [i \in 1..Len(obj) |-> IF obj[i][1] = k THEN <<k, v>> ELSE obj[i]]
    ELSE Append(obj, <<k, v>>)

\* The loop of CookieHandler.parseCookies over cookieHeader.split(';')
RECURSIVE parseCookiePairs(_, _)
parseCookiePairs(pairs, cookies) ==
    IF Len(pairs) = 0 THEN cookies
    ELSE
      LET parts == split(trim(Head(pairs)), "=")
          name == parts[1]
          value == join(Tail(parts), "=")
      IN  parseCookiePairs(Tail(pairs),
              IF Len(name) > 0 THEN ObjSet(cookies, trim(name), value) ELSE cookies)

parseCookies(cookieHeader) == parseCookiePairs(split(cookieHeader, ";"), << >>)

\* name.toLowerCase().includes(pattern.toLowerCase()) for some pattern of the list
NameHasPattern(name, patterns) ==
    \E i \in 1..Len(patterns) :
        includes(toLowerCase(name), toLowerCase(patterns[i]))

\* Some cookie of the parsed header has a name holding one of the patterns
SomeCookieMatches(cookies, patterns) ==
    \E i \in 1..Len(cookies) : NameHasPattern(cookies[i][1], patterns)

\* CookieHandler.matches from the Cookie header on
CookieHeaderMatches(h, cookieHeader) ==
    /\ Truthy(cookieHeader)
    /\ SomeCookieMatches(parseCookies(cookieHeader.value), h.cookiePatterns)

CookieMatches(h, details) ==
    /\ UrlPatternsMatch(h.urlPatterns, details)
    /\ CookieHeaderMatches(h, getHeader(details.requestHeaders, str_cookie))

\* The loop of CookieHandler.extract over Object.entries(cookies)
RECURSIVE CookieScan(_, _, _)
CookieScan(h, cookies, acc) ==
    IF Len(cookies) = 0 THEN acc
    ELSE
      LET name == Head(cookies)[1]
          value == Head(cookies)[2]
          matched == \E i \in 1..Len(h.cookiePatterns) :
                        /\ includes(toLowerCase(name), toLowerCase(h.cookiePatterns[i]))
                        /\ \A j \in 1..(i - 1) :
                              ~includes(toLowerCase(name), toLowerCase(h.cookiePatterns[j]))
                        /\ Len(h.cookiePatterns[i]) > 0
      IN  IF ~matched THEN CookieScan(h, Tail(cookies), acc)
          ELSE CookieScan(h, Tail(cookies),
                  [extracted |-> ObjSet(acc.extracted, name, value),
                   primaryCookie |->
                      IF IsNull(acc.primaryCookie) \/ NameHasPattern(name, CookiePriority)
                      THEN [name |-> name, value |-> value]
                      ELSE acc.primaryCookie])

\* The end of CookieHandler.extract: the record built from what the loop found
CookieResult(scan, details) ==
    IF IsNull(scan.primaryCookie) THEN Null
    ELSE [type |-> str_cookie,
          value |-> scan.primaryCookie.value,
          cookieName |-> scan.primaryCookie.name,
          allCookies |-> scan.extracted,
          source |-> Source(details)]

\* CookieHandler.extract from the Cookie header on
CookieHeaderExtract(h, details, cookieHeader) ==
    IF ~Truthy(cookieHeader) THEN Null
    ELSE CookieResult(CookieScan(h, parseCookies(cookieHeader.value),
                                 [extracted |-> << >>, primaryCookie |-> Null]),
                      details)

CookieExtract(h, details) ==
    CookieHeaderExtract(h, details, getHeader(details.requestHeaders, str_cookie))

-----------------------------------------------------------------------------
(* QueryParamHandler *)

QueryParamHandler(cfg) ==
    [kind |-> "query-param",
     name |-> str_query_param,
     displayName |-> str_Query_Param,
     enabled |-> TRUE,
     paramPatterns |-> IF "paramPatterns" \in DOMAIN cfg
                       THEN cfg.paramPatterns ELSE DefaultParamPatterns,
     urlPatterns |-> IF "urlPatterns" \in DOMAIN cfg THEN cfg.urlPatterns ELSE << >>]

\* QueryParamHandler.matches from the parsed URL on
QueryUrlMatches(h, details, parsedUrl) ==
    /\ ~IsNull(parsedUrl)
    /\ UrlPatternsMatch(h.urlPatterns, details)
    /\ \E i \in 1..Len(h.paramPatterns) : searchParamsHas(parsedUrl, h.paramPatterns[i])

QueryMatches(h, details) == QueryUrlMatches(h, details, parseUrl(details.url))

\* The loop of QueryParamHandler.extract over this.paramPatterns
RECURSIVE QueryScan(_, _, _)
QueryScan(parsedUrl, patterns, acc) ==
    IF Len(patterns) = 0 THEN acc
    ELSE
      LET pattern == Head(patterns)
          value == searchParamsGet(parsedUrl, pattern)
      IN  IF ~Truthy(value) THEN QueryScan(parsedUrl, Tail(patterns), acc)
          ELSE QueryScan(parsedUrl, Tail(patterns),
                  [extracted |-> ObjSet(acc.extracted, pattern, value.value),
                   primaryParam |->
                      IF IsNull(acc.primaryParam) \/ pattern \in Range(ParamPriority)
                      THEN [name |-> pattern, value |-> value.value]
                      ELSE acc.primaryParam])

\* The end of QueryParamHandler.extract: the record built from what the loop
\* found
QueryResult(scan, details, parsedUrl) ==
    IF IsNull(scan.primaryParam) THEN Null
    ELSE [type |-> str_query_param,
          value |-> scan.primaryParam.value,
          paramName |-> scan.primaryParam.name,
          allParams |-> scan.extracted,
          source |-> [url |-> Href(details.url),
                      domain |-> parsedUrl.hostname,
                      method |-> details.method,
                      tabId |-> details.tabId]]

\* QueryParamHandler.extract from the parsed URL on
QueryUrlExtract(h, details, parsedUrl) ==
    IF IsNull(parsedUrl) THEN Null
    ELSE QueryResult(QueryScan(parsedUrl, h.paramPatterns,
                               [extracted |-> << >>, primaryParam |-> Null]),
                     details, parsedUrl)

QueryExtract(h, details) == QueryUrlExtract(h, details, parseUrl(details.url))

-----------------------------------------------------------------------------
(* CustomHandler.  A rule is an object with a name and, optionally,           *)
(* displayName, urlPattern, method, extractFrom, extractKey, extractPattern. *)

CustomHandler(cfg) ==
    [kind |-> "custom",
     name |-> IF "name" \in DOMAIN cfg /\ Len(cfg.name) > 0 THEN cfg.name ELSE str_custom,
     displayName |-> IF "displayName" \in DOMAIN cfg /\ Len(cfg.displayName) > 0
                     THEN cfg.displayName ELSE str_Custom_Rule,
     enabled |-> TRUE,
     rule |-> IF "rule" \in DOMAIN cfg THEN cfg.rule ELSE << >>]

CustomMatches(h, details) ==
    /\ ("urlPattern" \in DOMAIN h.rule /\ Len(h.rule.urlPattern) > 0) =>
          UrlPatternMatches(toLowerCase(Href(details.url)), h.rule.urlPattern)
    /\ ("method" \in DOMAIN h.rule /\ Len(h.rule.method) > 0) =>
          \* toUpperCase on both sides: equal exactly when the lower cases are
          toLowerCase(details.method) = toLowerCase(h.rule.method)

\* The loop of BaseHandler.getCookie over cookieHeader.split(';'): the value of
\* the first cookie of that name
RECURSIVE FindCookie(_, _)
FindCookie(cookies, cookieName) ==
    IF Len(cookies) = 0 THEN Null
    ELSE IF trim(split(trim(Head(cookies)), "=")[1]) = cookieName
    THEN [value |-> join(Tail(split(trim(Head(cookies)), "=")), "=")]
    ELSE FindCookie(Tail(cookies), cookieName)

\* BaseHandler.getCookie from the Cookie header on
CookieOfHeader(cookieHeader, cookieName) ==
    IF ~Truthy(cookieHeader) THEN Null
    ELSE FindCookie(split(cookieHeader.value, ";"), cookieName)

\* BaseHandler.getCookie
getCookie(headers, cookieName) ==
    CookieOfHeader(getHeader(headers, str_cookie), cookieName)

\* The switch of CustomHandler.extract.  In 'path' mode the rule's pattern is
\* a RegExp without special characters or capture group: it matches where the
\* path includes it, and the value is the whole match.
CustomValueOf(rule, from, details, parsedUrl) ==
    CASE from = "header" ->
           IF Len(details.requestHeaders) > 0 /\ "extractKey" \notin DOMAIN rule
           THEN Threw
           ELSE getHeader(details.requestHeaders, rule.extractKey)
      [] from = "cookie" -> getCookie(details.requestHeaders, rule.extractKey)
      [] from = "query" ->
           IF IsNull(parsedUrl) THEN Null
           ELSE searchParamsGet(parsedUrl, rule.extractKey)
      [] from = "path" ->
           IF IsNull(parsedUrl) \/ "extractPattern" \notin DOMAIN rule
              \/ ~includes(parsedUrl.pathname, rule.extractPattern)
           THEN Null
           ELSE [value |-> rule.extractPattern]
      [] OTHER -> Null

CustomValue(h, details) ==
    CustomValueOf(h.rule,
                  IF "extractFrom" \in DOMAIN h.rule THEN h.rule.extractFrom ELSE "none",
                  details, parseUrl(details.url))

\* The end of CustomHandler.extract: the record built around the value
CustomResult(h, details, value) ==
    IF IsThrow(value) THEN Threw
    ELSE IF ~Truthy(value) THEN Null
    ELSE Spread(
           [type |-> str_custom,
            value |-> value.value,
            ruleName |-> h.name,
            source |-> Source(details)],
           Pick(h.rule, {"extractFrom", "extractKey"}))

CustomExtract(h, details) == CustomResult(h, details, CustomValue(h, details))

\* String(n) for a natural number
RECURSIVE Decimal(_)
Decimal(n) ==
    IF n < 10 THEN <<CHOOSE d \in Digits : d = ToString(n)>>
    ELSE Decimal(n \div 10) \o Decimal(n % 10)

str_custom_dash == <<"c", "u", "s", "t", "o", "m", "-">>
str_Custom_Rule_sp == <<"C", "u", "s", "t", "o", "m", " ", "R", "u", "l", "e", " ">>

\* rule.name || `custom-${index}`, with index counted from 0
RuleName(rule, i) ==
    IF "name" \in DOMAIN rule /\ Len(rule.name) > 0 THEN rule.name
    ELSE str_custom_dash \o Decimal(i - 1)

\* rule.displayName || rule.name || `Custom Rule ${index + 1}`
RuleDisplayName(rule, i) ==
    IF "displayName" \in DOMAIN rule /\ Len(rule.displayName) > 0 THEN rule.displayName
    ELSE IF "name" \in DOMAIN rule /\ Len(rule.name) > 0 THEN rule.name
    ELSE str_Custom_Rule_sp \o Decimal(i)

\* createCustomHandlers
createCustomHandlers(rules) ==
    [i \in 1..Len(rules) |->
        CustomHandler([name |-> RuleName(rules[i], i),
                       displayName |-> RuleDisplayName(rules[i], i),
                       rule |-> rules[i]])]

-----------------------------------------------------------------------------
(* BaseHandler.process and HandlerManager *)

\* this.matches(details) throws: the URL pattern is no regular expression
MatchThrows(h, details) ==
    CASE h.kind = "auth-token" -> UrlPatternsThrow(h.urlPatterns, details)
      [] h.kind = "cookie" -> UrlPatternsThrow(h.urlPatterns, details)
      [] h.kind = "query-param" ->
            ~IsNull(parseUrl(details.url)) /\ UrlPatternsThrow(h.urlPatterns, details)
      [] h.kind = "custom" ->
            /\ "urlPattern" \in DOMAIN h.rule
            /\ includes(h.rule.urlPattern, str_star)
            /\ RegexThrows(h.rule.urlPattern)

Matches(h, details) ==
    CASE h.kind = "auth-token" -> AuthMatches(h, details)
      [] h.kind = "cookie" -> CookieMatches(h, details)
      [] h.kind = "query-param" -> QueryMatches(h, details)
      [] h.kind = "custom" -> CustomMatches(h, details)

Extract(h, details) ==
    CASE h.kind = "auth-token" -> AuthExtract(h, details)
      [] h.kind = "cookie" -> CookieExtract(h, details)
      [] h.kind = "query-param" -> QueryExtract(h, details)
      [] h.kind = "custom" -> CustomExtract(h, details)

\* BaseHandler.process: Null, Threw, or the result with the handler's names
\* The end of BaseHandler.process: the extracted record under the handler's
\* names
Named(h, extracted) ==
    IF IsThrow(extracted) THEN Threw
    ELSE IF IsNull(extracted) THEN Null
    ELSE Spread([handler |-> h.name, displayName |-> h.displayName], extracted)

\* A wrapper that extracts without asking matches
process_Unmatched(h, details) ==
    IF ~h.enabled THEN Null ELSE Named(h, Extract(h, details))

process(h, details) ==
    IF ~h.enabled THEN Null
    ELSE IF MatchThrows(h, details) THEN Threw
    ELSE IF ~Matches(h, details) THEN Null
    ELSE Named(h, Extract(h, details))

\* HandlerManager.initialize: the built-in handlers it installs
BuiltinHandlers(cfg) ==
    <<AuthTokenHandler(IF "authToken" \in DOMAIN cfg THEN cfg.authToken ELSE << >>),
      CookieHandler(IF "cookie" \in DOMAIN cfg THEN cfg.cookie ELSE << >>),
      QueryParamHandler(IF "queryParam" \in DOMAIN cfg THEN cfg.queryParam ELSE << >>)>>

\* HandlerManager.getAllHandlers
getAllHandlers(hs, cs) == hs \o cs

\* What one handler adds to the results of HandlerManager.processRequest
Pushed(result) == IF IsThrow(result) \/ IsNull(result) THEN << >> ELSE <<result>>

RECURSIVE processAll(_, _)

\* A loop that a throwing handler ends
processAll_EndsAtThrow(hs, details) ==
    IF Len(hs) = 0 \/ IsThrow(process(Head(hs), details)) THEN << >>
    ELSE Pushed(process(Head(hs), details)) \o processAll(Tail(hs), details)

\* The loop of HandlerManager.processRequest: a handler that throws is logged
\* and skipped
processAll(hs, details) ==
    IF Len(hs) = 0 THEN << >>
    ELSE Pushed(process(Head(hs), details)) \o processAll(Tail(hs), details)

processRequest(hs, cs, details) == processAll(getAllHandlers(hs, cs), details)

-----------------------------------------------------------------------------
(* generateKey and normalizePathPattern (service-worker.js) *)

IsUuidSegment(seg) ==
    /\ Len(seg) = 36
    /\ \A i \in 1..36 :
          IF i \in {9, 14, 19, 24} THEN seg[i] = "-"
          ELSE seg[i] \in Digits \cup HexLetters

\* A test for numeric IDs that knows one digit only
IsNumericSegment_OneDigit(seg) == Len(seg) = 1 /\ seg[1] \in Digits

IsNumericSegment(seg) ==
    /\ Len(seg) >= 1
    /\ \A i \in 1..Len(seg) : seg[i] \in Digits

IsLongAlnumSegment(seg) ==
    /\ Len(seg) >= 20
    /\ \A i \in 1..Len(seg) : seg[i] \in Digits \cup LowerLetters \cup UpperLetters

NormalizeSegment(seg) ==
    IF IsUuidSegment(seg) THEN str_star
    ELSE IF IsNumericSegment(seg) THEN str_star
    ELSE IF IsLongAlnumSegment(seg) THEN str_star
    ELSE seg

\* A normalizer that keeps the query string in the last segment
normalizePathPattern_KeepsQuery(path) ==
    IF Len(path) = 0 THEN << >>
    ELSE
      LET cleanPath == path
          parts == split(cleanPath, "/")
          segments == [i \in 1..Len(parts) |-> NormalizeSegment(parts[i])]
      IN  join(segments, "/")

normalizePathPattern(path) ==
    IF Len(path) = 0 THEN << >>
    ELSE
      LET cleanPath == split(path, "?")[1]
          parts == split(cleanPath, "/")
          segments == [i \in 1..Len(parts) |-> NormalizeSegment(parts[i])]
      IN  join(segments, "/")

\* normalizeApiPath of the storage manager
normalizeApiPath(path) ==
    IF Len(path) = 0 THEN << >>
    ELSE
      LET parts == split(path, "/")
          segments == [i \in 1..Len(parts) |-> NormalizeSegment(parts[i])]
      IN  join(segments, "/")

generateKey(result) ==
    LET src == IF "source" \in DOMAIN result THEN result.source ELSE << >>
        domain == IF "domain" \in DOMAIN src /\ Len(src.domain) > 0
                  THEN src.domain ELSE str_unknown
        type == IF "type" \in DOMAIN result /\ Len(result.type) > 0
                THEN result.type ELSE str_unknown
        path == IF "path" \in DOMAIN src THEN src.path ELSE << >>
        pathPattern == normalizePathPattern(path)
        headerName == IF "headerName" \in DOMAIN result THEN result.headerName ELSE << >>
    IN  domain \o str_sep \o pathPattern \o str_sep \o type
        \o (IF Len(headerName) > 0 THEN str_sep \o headerName ELSE << >>)

-----------------------------------------------------------------------------
(* Storage manager: constants, configuration, the domain filter *)

MAX_HISTORY_ITEMS == 100
MAX_EXPIRED_TOKENS == 50

str_chrome_url == <<"c", "h", "r", "o", "m", "e", ":", "/", "/">>
str_chrome_extension_url == <<"c", "h", "r", "o", "m", "e", "-", "e", "x", "t", "e", "n", "s", "i", "o", "n", ":", "/", "/">>
str_moz_extension_url == <<"m", "o", "z", "-", "e", "x", "t", "e", "n", "s", "i", "o", "n", ":", "/", "/">>
str_star_dot == <<"*", ".">>

getDefaultConfig ==
    [enabled |-> TRUE,
     notifications |-> TRUE,
     notifyOnRotation |-> TRUE,
     autoCapture |-> TRUE,
     rules |-> << >>,
     domainAllowlist |-> << >>,
     domainBlocklist |-> << >>]

\* getConfig on a store whose 'config' value is cfg (Null when never set)
getConfig(cfg) == IF IsNull(cfg) THEN getDefaultConfig ELSE cfg

\* String.prototype.endsWith
endsWith(s, suffix) ==
    /\ Len(suffix) <= Len(s)
    /\ SubSeq(s, Len(s) - Len(suffix) + 1, Len(s)) = suffix

\* null where a string is expected: no string of characters
NullString == <<"null">>

\* !s for a string or null
Not(s) == s = NullString \/ Len(s) = 0

\* A match that knows no wildcard
matchDomainPattern_ExactOnly(domain, pattern) == ~Not(pattern) /\ domain = pattern

matchDomainPattern(domain, pattern) ==
    IF Not(pattern) THEN FALSE
    ELSE IF domain = pattern THEN TRUE
    ELSE IF startsWith(pattern, str_star_dot)
    THEN endsWith(domain, substring(pattern, 1)) \/ domain = substring(pattern, 2)
    ELSE FALSE

\* A filter that consults the allowlist before the blocklist
shouldCaptureDomain_AllowFirst(domain, cfg) ==
    LET domainAllowlist == IF "domainAllowlist" \in DOMAIN cfg
                           THEN cfg.domainAllowlist ELSE << >>
        domainBlocklist == IF "domainBlocklist" \in DOMAIN cfg
                           THEN cfg.domainBlocklist ELSE << >>
    IN  IF Not(domain) THEN FALSE
        ELSE IF \E i \in 1..Len(domainAllowlist) :
                    matchDomainPattern(domain, domainAllowlist[i])
        THEN TRUE
        ELSE IF \E i \in 1..Len(domainBlocklist) :
                    matchDomainPattern(domain, domainBlocklist[i])
        THEN FALSE
        ELSE Len(domainAllowlist) = 0

shouldCaptureDomain(domain, cfg) ==
    LET domainAllowlist == IF "domainAllowlist" \in DOMAIN cfg
                           THEN cfg.domainAllowlist ELSE << >>
        domainBlocklist == IF "domainBlocklist" \in DOMAIN cfg
                           THEN cfg.domainBlocklist ELSE << >>
    IN  IF Not(domain) THEN FALSE
        ELSE IF \E i \in 1..Len(domainBlocklist) :
                    matchDomainPattern(domain, domainBlocklist[i])
        THEN FALSE
        ELSE IF Len(domainAllowlist) = 0 THEN TRUE
        ELSE \E i \in 1..Len(domainAllowlist) :
                matchDomainPattern(domain, domainAllowlist[i])

\* A cut that keeps the tail of the list: the entry just put at the head is the
\* one dropped
Truncate_DropsNewest(list, max) ==
    IF Len(list) > max THEN SubSeq(list, Len(list) - max + 1, Len(list)) ELSE list

\* list.unshift(entry) followed by `if (list.length > max) list.splice(max)`
Truncate(list, max) == IF Len(list) > max THEN SubSeq(list, 1, max) ELSE list

\* An expired entry that does not tell its key
ExpiredEntry_Unkeyed(key, item, t) ==
    Spread([key |-> << >>, expiredAt |-> t],
           Pick(item, {"value", "type", "source", "displayName", "capturedAt",
                       "tokenType", "headerName"}))

\* The entry addToExpiredTokens puts at the head of the list
ExpiredEntry(key, item, t) ==
    Spread([key |-> key, expiredAt |-> t],
           Pick(item, {"value", "type", "source", "displayName", "capturedAt",
                       "tokenType", "headerName"}))

\* A history entry that is tagged a capture whatever the call found
HistoryEntry_AlwaysCapture(key, value, t, isRotation) ==
    Spread([key |-> key, timestamp |-> t, event |-> "capture"],
           Pick(value, {"value", "type", "source"}))

\* The entry addToHistory puts at the head of the list
HistoryEntry(key, value, t, isRotation) ==
    Spread([key |-> key, timestamp |-> t,
            event |-> IF isRotation THEN "rotation" ELSE "capture"],
           Pick(value, {"value", "type", "source"}))

\* A new entry left without its status
NewEntry_NoStatus(value, now) ==
    Spread(value, [capturedAt |-> now, rotationCount |-> 0])

\* updateCapturedItem, 'New token': the entry stored for a key seen first
NewEntry(value, now) ==
    Spread(value, [capturedAt |-> now, status |-> "active", rotationCount |-> 0])

\* A refresh that also moves capturedAt
SameEntry_Recaptured(existingItem, now) ==
    Spread(existingItem, [lastSeenAt |-> now, capturedAt |-> now])

\* updateCapturedItem, 'Same token': only lastSeenAt is refreshed
SameEntry(existingItem, now) == Spread(existingItem, [lastSeenAt |-> now])

\* A rotation count that is carried over without the increment
NextRotationCount_Kept(existingItem) ==
    IF "rotationCount" \in DOMAIN existingItem THEN existingItem.rotationCount ELSE 0

\* (existingItem.rotationCount || 0) + 1
NextRotationCount(existingItem) ==
    (IF "rotationCount" \in DOMAIN existingItem THEN existingItem.rotationCount ELSE 0) + 1

\* A rotation that keeps the previous value of an entry rotated before
RotatedEntry_FirstPrevious(value, existingItem, now) ==
    Spread(Spread(value,
                  [capturedAt |-> now,
                   status |-> "active",
                   rotationCount |-> NextRotationCount(existingItem),
                   lastRotatedAt |-> now,
                   previousValue |-> IF "previousValue" \in DOMAIN existingItem
                                     THEN existingItem.previousValue
                                     ELSE existingItem.value]),
           IF "capturedAt" \in DOMAIN existingItem
           THEN [previousCapturedAt |-> existingItem.capturedAt] ELSE << >>)

\* updateCapturedItem, 'Token rotation detected': the entry that replaces
\* existingItem
RotatedEntry(value, existingItem, now) ==
    Spread(Spread(value,
                  [capturedAt |-> now,
                   status |-> "active",
                   rotationCount |-> NextRotationCount(existingItem),
                   lastRotatedAt |-> now,
                   previousValue |-> existingItem.value]),
           IF "capturedAt" \in DOMAIN existingItem
           THEN [previousCapturedAt |-> existingItem.capturedAt] ELSE << >>)

\* previousToken as updateCapturedItem builds it on a rotation
PreviousToken(existingItem, now) ==
    Spread([value |-> existingItem.value, expiredAt |-> now],
           Pick(existingItem, {"capturedAt"}))

\* existingItem && existingItem.value !== value.value
IsRotation(data, key, value) == key \in DOMAIN data /\ data[key].value # value.value

\* data[key] = entry
ObjPut(data, key, entry) == Spread(data, [k \in {key} |-> entry])

-----------------------------------------------------------------------------
(* Storage manager: the API tracker.  An object is kept as the list of its   *)
(* <<name, value>> properties in insertion order.                            *)

MAX_TRACKED_DOMAINS == 50
MAX_ENDPOINTS_PER_DOMAIN == 200
MAX_PARAM_EXAMPLES == 5
MAX_EXAMPLE_URLS == 3

str_localhost == <<"l", "o", "c", "a", "l", "h", "o", "s", "t">>
str_basic_sp == <<"b", "a", "s", "i", "c", " ">>
MULTI_PART_TLDS ==
    {<<"c", "o", ".", "u", "k">>, <<"c", "o", ".", "i", "d">>, <<"c", "o", ".", "j", "p">>, <<"c", "o", "m", ".", "a", "u">>, <<"c", "o", "m", ".", "b", "r">>, <<"o", "r", "g", ".", "u", "k">>}
TrackerAuthHeaders ==
    {<<"a", "u", "t", "h", "o", "r", "i", "z", "a", "t", "i", "o", "n">>, <<"x", "-", "a", "u", "t", "h", "-", "t", "o", "k", "e", "n">>, <<"x", "-", "a", "p", "i", "-", "k", "e", "y">>, <<"x", "-", "a", "c", "c", "e", "s", "s", "-", "t", "o", "k", "e", "n">>}

\* obj[k] is set, obj[k], delete obj[k]
ObjHas(obj, k) == \E i \in 1..Len(obj) : obj[i][1] = k
ObjGet(obj, k) == obj[CHOOSE i \in 1..Len(obj) : obj[i][1] = k][2]
ObjDelete(obj, k) == SelectSeq(obj, LAMBDA e : e[1] # k)

\* obj[k] = (obj[k] || 0) + 1
Incr(obj, k) == ObjSet(obj, k, (IF ObjHas(obj, k) THEN ObjGet(obj, k) ELSE 0) + 1)

\* /^\d+\.\d+\.\d+\.\d+$/
IsDottedQuad(hostname) ==
    /\ Len(split(hostname, ".")) = 4
    /\ \A i \in 1..4 : IsNumericSegment(split(hostname, ".")[i])

\* An end of extractRootDomain that knows no multi-part TLD
RootOfParts_LastTwo(hostname, parts, n) ==
    IF n <= 2 THEN hostname ELSE join(SubSeq(parts, n - 1, n), ".")

\* The end of extractRootDomain: the last two parts, or three before a
\* multi-part TLD
RootOfParts(hostname, parts, n) ==
    IF n <= 2 THEN hostname
    ELSE IF join(SubSeq(parts, n - 1, n), ".") \in MULTI_PART_TLDS
    THEN join(SubSeq(parts, n - 2, n), ".")
    ELSE join(SubSeq(parts, n - 1, n), ".")

extractRootDomain(hostname) ==
    IF Not(hostname) THEN << >>
    ELSE IF hostname = str_localhost \/ IsDottedQuad(hostname) THEN hostname
    ELSE RootOfParts(hostname, split(hostname, "."), Len(split(hostname, ".")))

\* A classing that knows the Bearer prefix only
AuthTypeOf_BearerOnly(value) ==
    IF startsWith(toLowerCase(value), str_bearer_sp) THEN "bearer" ELSE "token"

\* The class detectAuthType gives the value of an auth header
AuthTypeOf(value) ==
    IF startsWith(toLowerCase(value), str_bearer_sp) THEN "bearer"
    ELSE IF startsWith(toLowerCase(value), str_basic_sp) THEN "basic"
    ELSE "token"

\* detectAuthType: the first auth header decides
RECURSIVE detectAuthType(_)
detectAuthType(requestHeaders) ==
    IF Len(requestHeaders) = 0 THEN [hasAuth |-> FALSE, authType |-> Null]
    ELSE IF toLowerCase(Head(requestHeaders).name) \in TrackerAuthHeaders
    THEN [hasAuth |-> TRUE,
          authType |-> [value |-> AuthTypeOf(
                           IF "value" \in DOMAIN Head(requestHeaders)
                           THEN Head(requestHeaders).value ELSE << >>)]]
    ELSE detectAuthType(Tail(requestHeaders))

\* A push that does not look whether the value is there
AddExample_Repeats(list, value, max) ==
    IF Len(list) < max THEN Append(list, value) ELSE list

\* if (!list.includes(value) && list.length < max) list.push(value)
AddExample(list, value, max) ==
    IF value \notin Range(list) /\ Len(list) < max THEN Append(list, value) ELSE list

\* The loop of mergeParamExamples over the values of one parameter
RECURSIVE AddExamples(_, _)
AddExamples(list, values) ==
    IF Len(values) = 0 THEN list
    ELSE AddExamples(AddExample(list, Head(values), MAX_PARAM_EXAMPLES), Tail(values))

\* params[key], the empty list when there is none
ExamplesOf(params, key) == IF ObjHas(params, key) THEN ObjGet(params, key) ELSE << >>

\* The loop of extractQueryParamsWithValues over searchParams.entries()
RECURSIVE ExtractExamples(_, _)
ExtractExamples(entries, params) ==
    IF Len(entries) = 0 THEN params
    ELSE ExtractExamples(
            Tail(entries),
            ObjSet(params, Head(entries)[1],
                   AddExample(ExamplesOf(params, Head(entries)[1]),
                              Head(entries)[2], MAX_PARAM_EXAMPLES)))

extractQueryParamsWithValues(search) == ExtractExamples(search, << >>)

\* mergeParamExamples: the loop over the entries of newParams
RECURSIVE mergeParamExamples(_, _)
mergeParamExamples(existing, newParams) ==
    IF Len(newParams) = 0 THEN existing
    ELSE mergeParamExamples(
            ObjSet(existing, Head(newParams)[1],
                   AddExamples(ExamplesOf(existing, Head(newParams)[1]),
                               Head(newParams)[2])),
            Tail(newParams))

\* Array.from(new Set(list)): the first occurrence of each value is kept
RECURSIVE Unique(_, _)
Unique(list, seen) ==
    IF Len(list) = 0 THEN seen
    ELSE Unique(Tail(list),
                IF Head(list) \in Range(seen) THEN seen ELSE Append(seen, Head(list)))

\* What trackApiRequest computes from the request before it reads the store
TrackedRequest(details) ==
    [url |-> Href(details.url),
     apiDomain |-> details.url.hostname,
     path |-> details.url.pathname,
     normalizedPath |-> normalizeApiPath(details.url.pathname),
     method |-> details.method,
     queryParams |-> [i \in 1..Len(details.url.search) |-> details.url.search[i][1]],
     queryParamExamples |-> extractQueryParamsWithValues(details.url.search),
     auth |-> detectAuthType(details.requestHeaders)]

\* `${apiDomain}::${normalizedPath}::${method}`
EndpointKey(r) == r.apiDomain \o str_sep \o r.normalizedPath \o str_sep \o r.method

\* The bucket of a page domain not seen before
NewBucket(pageDomain, now) ==
    [displayName |-> pageDomain,
     lastVisited |-> now,
     totalRequests |-> 0,
     endpoints |-> << >>,
     stats |-> [uniqueEndpoints |-> 0, byApiDomain |-> << >>, byMethod |-> << >>]]

\* 'Create new endpoint'
NewEndpoint(r, now) ==
    [apiDomain |-> r.apiDomain,
     path |-> r.path,
     normalizedPath |-> r.normalizedPath,
     method |-> r.method,
     queryParams |-> r.queryParams,
     queryParamExamples |-> r.queryParamExamples,
     hasAuth |-> r.auth.hasAuth,
     authType |-> r.auth.authType,
     count |-> 1,
     firstSeen |-> now,
     lastSeen |-> now,
     exampleUrl |-> r.url,
     exampleUrls |-> <<r.url>>]

\* 'Update existing endpoint'
UpdatedEndpoint(endpoint, r, now) ==
    [endpoint EXCEPT
        !.count = @ + 1,
        !.lastSeen = now,
        !.queryParams = Unique(@ \o r.queryParams, << >>),
        !.queryParamExamples = mergeParamExamples(@, r.queryParamExamples),
        !.hasAuth = IF r.auth.hasAuth /\ ~@ THEN TRUE ELSE @,
        !.authType = IF r.auth.hasAuth /\ ~endpoint.hasAuth THEN r.auth.authType ELSE @,
        !.exampleUrls = AddExample(@, r.url, MAX_EXAMPLE_URLS)]

\* The first entry of sort((a, b) => a - b) on the values: the sort is stable
OldestIndex(values) ==
    CHOOSE i \in 1..Len(values) :
        /\ \A j \in 1..Len(values) : values[i] <= values[j]
        /\ \A j \in 1..(i - 1) : values[j] > values[i]

\* An eviction that takes the entry inserted first
EvictEndpoint_First(endpoints) == Tail(endpoints)

\* 'Remove oldest endpoint (LRU)'
EvictEndpoint(endpoints) ==
    ObjDelete(endpoints,
              endpoints[OldestIndex([i \in 1..Len(endpoints) |->
                                        endpoints[i][2].lastSeen])][1])

\* The endpoints after the 'else' branch: eviction at the cap, then the insert
WithNewEndpoint(endpoints, key, entry) ==
    Append(IF Len(endpoints) >= MAX_ENDPOINTS_PER_DOMAIN
           THEN EvictEndpoint(endpoints) ELSE endpoints,
           <<key, entry>>)

\* stats.byApiDomain after a request: the statement stands in the branch of a
\* new endpoint
CountedApiDomain(byApiDomain, apiDomain, isNew) ==
    IF isNew THEN Incr(byApiDomain, apiDomain) ELSE byApiDomain

\* A bucket whose uniqueEndpoints is counted up at every new endpoint
TrackedBucket_CountsUp(domainData, r, now, isNew, endpoints) ==
    [domainData EXCEPT
        !.lastVisited = now,
        !.totalRequests = @ + 1,
        !.endpoints = endpoints,
        !.stats = [uniqueEndpoints |-> IF isNew THEN @.uniqueEndpoints + 1
                                       ELSE @.uniqueEndpoints,
                   byApiDomain |-> CountedApiDomain(@.byApiDomain, r.apiDomain, isNew),
                   byMethod |-> Incr(@.byMethod, r.method)]]

\* The bucket after the request, given the endpoints after it
TrackedBucket(domainData, r, now, isNew, endpoints) ==
    [domainData EXCEPT
        !.lastVisited = now,
        !.totalRequests = @ + 1,
        !.endpoints = endpoints,
        !.stats = [uniqueEndpoints |-> IF isNew THEN Len(endpoints) ELSE @.uniqueEndpoints,
                   byApiDomain |-> CountedApiDomain(@.byApiDomain, r.apiDomain, isNew),
                   byMethod |-> Incr(@.byMethod, r.method)]]

\* The bucket after the request
TrackedInBucket(domainData, r, key, now) ==
    IF ObjHas(domainData.endpoints, key)
    THEN TrackedBucket(domainData, r, now, FALSE,
                       ObjSet(domainData.endpoints, key,
                              UpdatedEndpoint(ObjGet(domainData.endpoints, key), r, now)))
    ELSE TrackedBucket(domainData, r, now, TRUE,
                       WithNewEndpoint(domainData.endpoints, key, NewEndpoint(r, now)))

\* The others of a tracker: the buckets of the page domains but pageDomain
Others(tracker, pageDomain) == ObjDelete(tracker, pageDomain)

\* An eviction that takes the bucket inserted first, whichever it is
EvictDomain_First(tracker, pageDomain) == Tail(tracker)

\* 'Remove oldest domain (LRU)'
EvictDomain(tracker, pageDomain) ==
    ObjDelete(tracker,
              Others(tracker, pageDomain)[
                  OldestIndex([i \in 1..Len(Others(tracker, pageDomain)) |->
                                  Others(tracker, pageDomain)[i][2].lastVisited])][1])

\* 'Check domain limit'
DomainsCapped(tracker, pageDomain) ==
    IF Len(tracker) > MAX_TRACKED_DOMAINS THEN EvictDomain(tracker, pageDomain)
    ELSE tracker

\* tracker[pageDomain], the bucket set up when there is none
BucketOf(tracker, pageDomain, now) ==
    IF ObjHas(tracker, pageDomain) THEN ObjGet(tracker, pageDomain)
    ELSE NewBucket(pageDomain, now)

\* trackApiRequest from the tracker read to the tracker it writes
Tracked(tracker, pageDomain, details, now) ==
    DomainsCapped(
        ObjSet(tracker, pageDomain,
               TrackedInBucket(BucketOf(tracker, pageDomain, now),
                               TrackedRequest(details),
                               EndpointKey(TrackedRequest(details)), now)),
        pageDomain)

-----------------------------------------------------------------------------
(* Bounds of the model *)

MaxTime == 1
MaxCalls == 2
MaxFaults == 1
MaxRules == 2
MaxPatterns == 1
MaxSegments == 2
MaxLabels == 4
MaxHeaders == 2
Procs == {1, 2}

-----------------------------------------------------------------------------
(* Processes *)

P0 ==
    [pc |-> "idle", op |-> "none", outcome |-> "none",
     details |-> Null, results |-> << >>, idx |-> 0, completed |-> {},
     key |-> << >>, value |-> Null, data |-> << >>, now |-> 0,
     rotationDetected |-> FALSE, previousToken |-> Null,
     item |-> Null, isRotation |-> FALSE, list |-> << >>, ret |-> Null,
     failedAt |-> "none", units |-> << >>, pageDomain |-> << >>,
     tracker |-> << >>, dispatched |-> FALSE, message |-> Null]

\* The values Date.now() may return next: time does not run backwards
Now == IF clock < MaxTime THEN {clock, clock + 1} ELSE {clock}

Store ==
    [capturedData |-> capturedData, expiredTokens |-> expiredTokens,
     history |-> history]

Quiet(p) == proc[p].pc \in {"idle", "done"}

\* A call that has ended keeps what it was called with and what it returned
Finished(pr, outcome, ret) ==
    [P0 EXCEPT !.pc = "done", !.op = pr.op, !.outcome = outcome,
               !.details = pr.details, !.results = pr.results, !.idx = pr.idx,
               !.completed = pr.completed, !.key = pr.key, !.value = pr.value,
               !.now = pr.now, !.ret = ret, !.units = pr.units,
               !.dispatched = pr.dispatched, !.message = pr.message]

\* The start of updateCapturedItem(key, value): getCapturedData is called
BeginUpdate(pr, key, value) ==
    [pr EXCEPT !.pc = "u_getCapturedData", !.key = key, !.value = value,
               !.data = << >>, !.now = 0, !.rotationDetected = FALSE,
               !.previousToken = Null, !.item = Null, !.list = << >>,
               !.ret = Null]

\* updateCapturedItem(key, value) called on its own
CallUpdateCapturedItem(p, key, value) ==
    /\ Quiet(p)
    /\ calls < MaxCalls
    /\ calls' = calls + 1
    /\ proc' = [proc EXCEPT ![p] =
                  BeginUpdate([P0 EXCEPT !.op = "updateCapturedItem"], key, value)]
    /\ pre' = [pre EXCEPT ![p] = Store]
    /\ UNCHANGED <<capturedData, expiredTokens, history, apiTracker, config,
                   clock, handlers, customHandlers, isEnabled, sent, notified,
                   apiQueue, initializing, batch, faults>>

\* addToExpiredTokens(key, item) called on its own
CallAddToExpiredTokens(p, key, item) ==
    /\ Quiet(p)
    /\ calls < MaxCalls
    /\ calls' = calls + 1
    /\ proc' = [proc EXCEPT ![p] =
                  [P0 EXCEPT !.op = "addToExpiredTokens", !.pc = "x_getExpiredTokens",
                             !.key = key, !.item = item]]
    /\ pre' = [pre EXCEPT ![p] = Store]
    /\ UNCHANGED <<capturedData, expiredTokens, history, apiTracker, config,
                   clock, handlers, customHandlers, isEnabled, sent, notified,
                   apiQueue, initializing, batch, faults>>

\* addToHistory(key, value, isRotation) called on its own
CallAddToHistory(p, key, value, isRotation) ==
    /\ Quiet(p)
    /\ calls < MaxCalls
    /\ calls' = calls + 1
    /\ proc' = [proc EXCEPT ![p] =
                  [P0 EXCEPT !.op = "addToHistory", !.pc = "h_getHistory",
                             !.key = key, !.value = value, !.isRotation = isRotation]]
    /\ pre' = [pre EXCEPT ![p] = Store]
    /\ UNCHANGED <<capturedData, expiredTokens, history, apiTracker, config,
                   clock, handlers, customHandlers, isEnabled, sent, notified,
                   apiQueue, initializing, batch, faults>>

\* updateCapturedItem: getCapturedData resolves; the three cases are told
\* apart; on a rotation addToExpiredTokens is called, else setCapturedData
GetCapturedData(p) ==
    /\ proc[p].pc = "u_getCapturedData"
    /\ \E t \in Now :
          LET pr == proc[p]
              data == capturedData
          IN  /\ clock' = t
              /\ proc' = [proc EXCEPT ![p] =
                    IF IsRotation(data, pr.key, pr.value)
                    THEN [pr EXCEPT !.pc = "x_getExpiredTokens",
                                    !.data = data, !.now = t,
                                    !.rotationDetected = TRUE,
                                    !.previousToken = PreviousToken(data[pr.key], t),
                                    !.item = data[pr.key]]
                    ELSE IF pr.key \in DOMAIN data
                    THEN [pr EXCEPT !.pc = "u_setCapturedData", !.now = t,
                                    !.data = ObjPut(data, pr.key,
                                                    SameEntry(data[pr.key], t))]
                    ELSE [pr EXCEPT !.pc = "u_setCapturedData", !.now = t,
                                    !.data = ObjPut(data, pr.key,
                                                    NewEntry(pr.value, t))]]
    /\ UNCHANGED <<capturedData, expiredTokens, history, apiTracker, config,
                   handlers, customHandlers, isEnabled, sent, notified,
                   apiQueue, initializing, pre, batch, calls, faults>>

\* addToExpiredTokens: getExpiredTokens resolves; the entry is put at the head,
\* the list is cut to its cap and the write is issued
GetExpiredTokens(p) ==
    /\ proc[p].pc = "x_getExpiredTokens"
    /\ \E t \in Now :
          LET pr == proc[p]
          IN  /\ clock' = t
              /\ proc' = [proc EXCEPT ![p] =
                    [pr EXCEPT !.pc = "x_setExpiredTokens",
                               !.list = Truncate(<<ExpiredEntry(pr.key, pr.item, t)>>
                                                     \o expiredTokens,
                                                 MAX_EXPIRED_TOKENS)]]
    /\ UNCHANGED <<capturedData, expiredTokens, history, apiTracker, config,
                   handlers, customHandlers, isEnabled, sent, notified,
                   apiQueue, initializing, pre, batch, calls, faults>>

\* addToExpiredTokens: the write of 'expiredTokens' completes and the call
\* returns; updateCapturedItem then builds the rotated entry and calls
\* setCapturedData
SetExpiredTokens(p) ==
    /\ proc[p].pc = "x_setExpiredTokens"
    /\ expiredTokens' = proc[p].list
    /\ LET pr == proc[p]
       IN  proc' = [proc EXCEPT ![p] =
              IF pr.op = "addToExpiredTokens"
              THEN Finished(pr, "returned", Null)
              ELSE [pr EXCEPT !.pc = "u_setCapturedData", !.list = << >>,
                              !.data = ObjPut(pr.data, pr.key,
                                              RotatedEntry(pr.value, pr.item, pr.now))]]
    /\ UNCHANGED <<capturedData, history, apiTracker, config, clock, handlers,
                   customHandlers, isEnabled, sent, notified, apiQueue,
                   initializing, pre, batch, calls, faults>>

\* updateCapturedItem: setCapturedData completes; addToHistory is called
SetCapturedData(p) ==
    /\ proc[p].pc = "u_setCapturedData"
    /\ capturedData' = proc[p].data
    /\ proc' = [proc EXCEPT ![p] =
                  [proc[p] EXCEPT !.pc = "h_getHistory",
                                  !.isRotation = proc[p].rotationDetected]]
    /\ UNCHANGED <<expiredTokens, history, apiTracker, config, clock,
                   handlers, customHandlers, isEnabled, sent, notified,
                   apiQueue, initializing, pre, batch, calls, faults>>

\* addToHistory: getHistory resolves; the entry is put at the head, the list
\* is cut to its cap and the write is issued
GetHistory(p) ==
    /\ proc[p].pc = "h_getHistory"
    /\ \E t \in Now :
          LET pr == proc[p]
          IN  /\ clock' = t
              /\ proc' = [proc EXCEPT ![p] =
                    [pr EXCEPT !.pc = "h_setHistory",
                               !.list = Truncate(
                                   <<HistoryEntry(pr.key, pr.value, t, pr.isRotation)>>
                                       \o history,
                                   MAX_HISTORY_ITEMS)]]
    /\ UNCHANGED <<capturedData, expiredTokens, history, apiTracker, config,
                   handlers, customHandlers, isEnabled, sent, notified,
                   apiQueue, initializing, pre, batch, calls, faults>>

\* A message that tells every update as a capture
CaptureMessage_AlwaysCaptured(pr) ==
    [type |-> "DATA_CAPTURED",
     key |-> pr.key,
     data |-> pr.value,
     rotationDetected |-> pr.rotationDetected,
     previousToken |-> pr.previousToken,
     currentData |-> pr.data[pr.key]]

\* The message handleRequest sends after an update
CaptureMessage(pr) ==
    [type |-> IF pr.rotationDetected THEN "TOKEN_ROTATED" ELSE "DATA_CAPTURED",
     key |-> pr.key,
     data |-> pr.value,
     rotationDetected |-> pr.rotationDetected,
     previousToken |-> pr.previousToken,
     currentData |-> pr.data[pr.key]]

\* addToHistory: the write of 'history' completes and the call returns, and
\* with it updateCapturedItem; handleRequest then sends its message and calls
\* getConfig
SetHistory(p) ==
    /\ proc[p].pc = "h_setHistory"
    /\ history' = proc[p].list
    /\ LET pr == proc[p]
           ret == [data |-> pr.data, rotationDetected |-> pr.rotationDetected,
                   previousToken |-> pr.previousToken]
       IN  /\ proc' = [proc EXCEPT ![p] =
                 IF pr.op = "addToHistory" THEN Finished(pr, "returned", Null)
                 ELSE IF pr.op = "updateCapturedItem" THEN Finished(pr, "returned", ret)
                 ELSE [pr EXCEPT !.pc = "r_getConfig2", !.list = << >>, !.ret = ret,
                                 !.completed = pr.completed \cup {pr.idx}]]
           /\ sent' = IF pr.op = "handleRequest"
                      THEN Append(sent, CaptureMessage(pr)) ELSE sent
    /\ UNCHANGED <<capturedData, expiredTokens, apiTracker, config, clock,
                   handlers, customHandlers, isEnabled, notified, apiQueue,
                   initializing, pre, batch, calls, faults>>

\* A call of trackApiRequest up to its await of getApiTracker
BeginTrack(pr, op, pageDomain, details, now) ==
    [P0 EXCEPT !.pc = "t_getApiTracker", !.op = op, !.pageDomain = pageDomain,
               !.details = details, !.key = EndpointKey(TrackedRequest(details)),
               !.now = now]

\* A trackApiRequest that sets up the bucket of the page domain before it
\* parses the URL
TrackApiRequest_BucketFirst(p, pageDomain, details) ==
    /\ Quiet(p)
    /\ calls < MaxCalls
    /\ calls' = calls + 1
    /\ \E now \in Now :
          /\ clock' = now
          /\ apiTracker' = IF details.url.valid \/ ObjHas(apiTracker, pageDomain)
                           THEN apiTracker
                           ELSE ObjSet(apiTracker, pageDomain, NewBucket(pageDomain, now))
          /\ proc' = [proc EXCEPT ![p] =
                IF details.url.valid
                THEN BeginTrack(proc[p], "trackApiRequest", pageDomain, details, now)
                ELSE Finished([P0 EXCEPT !.op = "trackApiRequest",
                                         !.pageDomain = pageDomain,
                                         !.details = details],
                              "skipped", Null)]
    /\ UNCHANGED <<capturedData, expiredTokens, history, config,
                   handlers, customHandlers, isEnabled, sent, notified,
                   apiQueue, initializing, pre, batch, faults>>

\* trackApiRequest(pageDomain, requestDetails) called on its own: a URL that
\* does not parse ends it, else Date.now() is read and getApiTracker is called
TrackApiRequest(p, pageDomain, details) ==
    /\ Quiet(p)
    /\ calls < MaxCalls
    /\ calls' = calls + 1
    /\ \E now \in Now :
          /\ clock' = IF details.url.valid THEN now ELSE clock
          /\ proc' = [proc EXCEPT ![p] =
                IF details.url.valid
                THEN BeginTrack(proc[p], "trackApiRequest", pageDomain, details, now)
                ELSE Finished([P0 EXCEPT !.op = "trackApiRequest",
                                         !.pageDomain = pageDomain,
                                         !.details = details],
                              "skipped", Null)]
    /\ UNCHANGED <<capturedData, expiredTokens, history, apiTracker, config,
                   handlers, customHandlers, isEnabled, sent, notified,
                   apiQueue, initializing, pre, batch, faults>>

\* trackApiRequest: getApiTracker resolves; the bucket, the endpoint, the
\* stats and the caps are worked on the tracker read; the write is called
GetApiTracker(p) ==
    /\ proc[p].pc = "t_getApiTracker"
    /\ proc' = [proc EXCEPT ![p] =
          [proc[p] EXCEPT
              !.pc = "t_setApiTracker",
              !.tracker = apiTracker,
              !.data = Tracked(apiTracker, proc[p].pageDomain, proc[p].details,
                               proc[p].now)]]
    /\ UNCHANGED <<capturedData, expiredTokens, history, apiTracker, config,
                   clock, handlers, customHandlers, isEnabled, sent, notified,
                   apiQueue, initializing, pre, batch, calls, faults>>

\* trackApiRequest: the write of 'apiTracker' completes and the call returns;
\* handleApiMonitoring then sends API_TRACKED
SetApiTracker(p) ==
    /\ proc[p].pc = "t_setApiTracker"
    /\ apiTracker' = proc[p].data
    /\ proc' = [proc EXCEPT ![p].pc = "done", ![p].outcome = "returned"]
    /\ sent' = IF proc[p].op = "handleApiMonitoring"
               THEN Append(sent, [type |-> "API_TRACKED",
                                  pageDomain |-> proc[p].pageDomain,
                                  url |-> Href(proc[p].details.url),
                                  method |-> proc[p].details.method])
               ELSE sent
    /\ UNCHANGED <<capturedData, expiredTokens, history, config, clock, handlers,
                   customHandlers, isEnabled, notified, apiQueue, initializing,
                   pre, batch, calls, faults>>

-----------------------------------------------------------------------------
(* Service worker: initialize and handleRequest *)

\* initialize(): getConfig resolves; isEnabled and the handlers are set
InitializeDone ==
    /\ initializing > 0
    /\ initializing' = initializing - 1
    /\ LET cfg == getConfig(config)
       IN  /\ isEnabled' = (IF "enabled" \in DOMAIN cfg THEN cfg.enabled ELSE TRUE)
           /\ handlers' = BuiltinHandlers(
                  [authToken |-> IF "authTokenConfig" \in DOMAIN cfg
                                 THEN cfg.authTokenConfig ELSE << >>,
                   cookie |-> IF "cookieConfig" \in DOMAIN cfg
                              THEN cfg.cookieConfig ELSE << >>])
           /\ customHandlers' = createCustomHandlers(
                  IF "rules" \in DOMAIN cfg THEN cfg.rules ELSE << >>)
    /\ UNCHANGED <<capturedData, expiredTokens, history, apiTracker, config,
                   clock, proc, sent, notified, apiQueue, pre, batch, calls,
                   faults>>

\* handleRequest(details) up to its first await: a paused worker, an extension
\* or chrome URL and an unparseable URL end it; else getConfig is called.  The
\* call takes the first process that is free.
HandleRequest(p, details) ==
    /\ Quiet(p)
    /\ \A q \in Procs : Quiet(q) => p <= q
    /\ calls < MaxCalls
    /\ calls' = calls + 1
    /\ LET href == Href(details.url)
           skip == \/ ~isEnabled
                   \/ startsWith(href, str_chrome_url)
                   \/ startsWith(href, str_chrome_extension_url)
                   \/ startsWith(href, str_moz_extension_url)
                   \/ ~details.url.valid
           pr == [P0 EXCEPT !.op = "handleRequest", !.details = details]
       IN  proc' = [proc EXCEPT ![p] =
              IF skip THEN Finished(pr, "skipped", Null)
              ELSE [pr EXCEPT !.pc = "r_getConfig"]]
    /\ batch' = IF \A q \in Procs : Quiet(q)
                THEN [base |-> Store, updates |-> [q \in Procs |-> << >>]]
                ELSE batch
    /\ UNCHANGED <<capturedData, expiredTokens, history, apiTracker, config,
                   clock, handlers, customHandlers, isEnabled, sent, notified,
                   apiQueue, initializing, pre, faults>>

\* A gate that lets the requests of no tab through
Monitored_AnyTab(details) == details.type = "xmlhttprequest"

\* details.type === 'xmlhttprequest' && details.tabId > 0
Monitored(details) == details.type = "xmlhttprequest" /\ details.tabId > 0

\* handleRequest: getConfig resolves; the domain filter; handleApiMonitoring is
\* started for an XHR of a tab; processRequest; the loop over the results
\* begins with the first updateCapturedItem.  `dispatched` tells that
\* processRequest was called.
GetConfigFilter(p) ==
    /\ proc[p].pc = "r_getConfig"
    /\ \E pr \in {proc[p]}, details \in {proc[p].details},
          allowed \in {shouldCaptureDomain(proc[p].details.url.hostname,
                                           getConfig(config))},
          results \in {processRequest(handlers, customHandlers, proc[p].details)} :
       LET keyed == [i \in 1..Len(results) |-> <<generateKey(results[i]), results[i]>>]
       IN  /\ apiQueue' = IF allowed /\ Monitored(details)
                          THEN Append(apiQueue, details) ELSE apiQueue
           /\ proc' = [proc EXCEPT ![p] =
                 IF ~allowed THEN Finished(pr, "skipped", Null)
                 ELSE IF Len(results) = 0
                 THEN Finished([pr EXCEPT !.dispatched = TRUE], "returned", Null)
                 ELSE BeginUpdate([pr EXCEPT !.results = results, !.idx = 1,
                                             !.dispatched = TRUE],
                                  generateKey(results[1]), results[1])]
           /\ batch' = IF allowed
                       THEN [batch EXCEPT !.updates[p] = @ \o keyed] ELSE batch
    /\ pre' = [pre EXCEPT ![p] = Store]
    /\ UNCHANGED <<capturedData, expiredTokens, history, apiTracker, config,
                   clock, handlers, customHandlers, isEnabled, sent, notified,
                   initializing, calls, faults>>

str_about == <<"a", "b", "o", "u", "t", ":">>
str_edge_url == <<"e", "d", "g", "e", ":", "/", "/">>

\* handleApiMonitoring up to the call of trackApiRequest: what makes it return
\* (or throw into its catch) with the tab chrome.tabs.get gave, Null when the
\* call rejected
SkippedTab(tab) ==
    \/ IsNull(tab)
    \/ "url" \notin DOMAIN tab
    \/ startsWith(Href(tab.url), str_chrome_url)
    \/ startsWith(Href(tab.url), str_chrome_extension_url)
    \/ startsWith(Href(tab.url), str_about)
    \/ startsWith(Href(tab.url), str_edge_url)
    \/ ~tab.url.valid
    \/ Not(extractRootDomain(tab.url.hostname))

\* handleApiMonitoring(details): chrome.tabs.get resolves with the tab, or
\* rejects (Null).  Without a tab, on an extension or browser page and without
\* a page domain it returns; else trackApiRequest is called: Date.now() is
\* read and getApiTracker is called.  `item` keeps the tab.
TabsGet(p, tab) ==
    /\ Len(apiQueue) > 0
    /\ Quiet(p)
    /\ apiQueue' = Tail(apiQueue)
    /\ \E details \in {Head(apiQueue)}, now \in Now :
          LET skip == SkippedTab(tab)
          IN  /\ clock' = IF skip THEN clock ELSE now
              /\ proc' = [proc EXCEPT ![p] =
                    IF skip
                    THEN [Finished([P0 EXCEPT !.op = "handleApiMonitoring",
                                              !.details = details],
                                   "skipped", Null) EXCEPT !.item = tab]
                    ELSE [BeginTrack(proc[p], "handleApiMonitoring",
                                     extractRootDomain(tab.url.hostname),
                                     Pick(details, {"url", "method", "requestHeaders"}),
                                     now) EXCEPT !.item = tab]]
    /\ UNCHANGED <<capturedData, expiredTokens, history, apiTracker, config,
                   handlers, customHandlers, isEnabled, sent, notified,
                   initializing, pre, batch, calls, faults>>

\* showNotification / showRotationNotification: what the notification names
Notification(pr) ==
    LET result == pr.value
        storedData == pr.data[pr.key]
        base == [priority |-> IF pr.rotationDetected THEN 1 ELSE 0,
                 displayName |-> result.displayName,
                 domain |-> IF "domain" \in DOMAIN result.source
                            THEN result.source.domain ELSE str_unknown]
    IN  IF pr.rotationDetected
        THEN Spread(base,
                    [rotation |-> IF "rotationCount" \in DOMAIN storedData
                                     /\ storedData.rotationCount # 0
                                  THEN storedData.rotationCount ELSE 1])
        ELSE base

\* handleRequest: the getConfig after an update resolves; the notification is
\* shown if enabled; the loop goes on to the next result or ends
GetConfigNotify(p) ==
    /\ proc[p].pc = "r_getConfig2"
    /\ LET pr == proc[p]
           cfg == getConfig(config)
       IN  /\ notified' = IF "notifications" \in DOMAIN cfg /\ cfg.notifications
                          THEN Append(notified, Notification(pr)) ELSE notified
           /\ proc' = [proc EXCEPT ![p] =
                 IF pr.idx < Len(pr.results)
                 THEN BeginUpdate([pr EXCEPT !.idx = pr.idx + 1],
                                  generateKey(pr.results[pr.idx + 1]),
                                  pr.results[pr.idx + 1])
                 ELSE Finished(pr, "returned", Null)]
    /\ pre' = [pre EXCEPT ![p] = Store]
    /\ UNCHANGED <<capturedData, expiredTokens, history, apiTracker, config,
                   clock, handlers, customHandlers, isEnabled, sent, apiQueue,
                   initializing, batch, calls, faults>>

\* The storage call a process is suspended on rejects.  Nothing is written.
\* The rejection leaves updateCapturedItem, addToExpiredTokens and addToHistory
\* as an exception; handleRequest catches it: the catch around the domain
\* filter returns, the catch around the loop logs the error and ends the loop.
Fault(p) ==
    /\ proc[p].pc \notin {"idle", "done"}
    /\ faults < MaxFaults
    /\ faults' = faults + 1
    /\ LET pr == proc[p]
           outcome == IF pr.op # "handleRequest" THEN "threw"
                      ELSE IF pr.pc = "r_getConfig" THEN "skipped"
                      ELSE "caught"
       IN  proc' = [proc EXCEPT ![p] =
              [Finished(pr, outcome, Null) EXCEPT !.failedAt = pr.pc]]
    /\ UNCHANGED <<capturedData, expiredTokens, history, apiTracker, config,
                   clock, handlers, customHandlers, isEnabled, sent, notified,
                   apiQueue, initializing, pre, batch, calls>>

-----------------------------------------------------------------------------
(* Service worker: handleMessage *)

\* message.type, "undefined" when the message has none
TypeOf(message) == IF "type" \in DOMAIN message THEN message.type ELSE "undefined"

\* The cases of the switch that await one getter and return what it gives
GetterTypes ==
    {"GET_CAPTURED_DATA", "GET_HISTORY", "GET_CONFIG", "GET_EXPIRED_TOKENS",
     "GET_API_TRACKER", "GET_TRACKED_DOMAINS", "GET_API_TRACKER_FOR_DOMAIN"}

\* The cases of the switch that begin with await getConfig()
ConfigTypes == {"TOGGLE_ENABLED", "ADD_CUSTOM_RULE", "REMOVE_CUSTOM_RULE"}

\* The cases of the switch
MessageTypes ==
    GetterTypes \cup ConfigTypes \cup
    {"CLEAR_HISTORY", "REMOVE_ITEM", "CLEAR_ALL", "SET_CONFIG", "GET_CAPABILITIES",
     "CLEAR_EXPIRED_TOKENS", "CLEAR_API_TRACKER"}

\* HandlerManager.getCapabilities
getCapabilities(hs, cs) ==
    [i \in 1..Len(getAllHandlers(hs, cs)) |->
        [name |-> getAllHandlers(hs, cs)[i].name,
         displayName |-> getAllHandlers(hs, cs)[i].displayName,
         enabled |-> getAllHandlers(hs, cs)[i].enabled]]

\* domains.sort((a, b) => b.lastVisited - a.lastVisited): the sort is stable
RECURSIVE SortedByLastVisited(_)
SortedByLastVisited(domains) ==
    IF Len(domains) = 0 THEN << >>
    ELSE LET rest == SortedByLastVisited(SubSeq(domains, 1, Len(domains) - 1))
             last == domains[Len(domains)]
         IN  SelectSeq(rest, LAMBDA d : d.lastVisited >= last.lastVisited)
                \o <<last>>
                \o SelectSeq(rest, LAMBDA d : d.lastVisited < last.lastVisited)

\* getTrackedDomains
getTrackedDomains(tracker) ==
    SortedByLastVisited(
        [i \in 1..Len(tracker) |->
            [domain |-> tracker[i][1],
             displayName |-> tracker[i][2].displayName,
             lastVisited |-> tracker[i][2].lastVisited,
             totalRequests |-> tracker[i][2].totalRequests,
             uniqueEndpoints |-> tracker[i][2].stats.uniqueEndpoints]])

\* What the getter of a message resolves to; REMOVE_ITEM ends with
\* getCapturedData too
GetterValue(message) ==
    CASE TypeOf(message) \in {"GET_CAPTURED_DATA", "REMOVE_ITEM"} -> [value |-> capturedData]
      [] TypeOf(message) = "GET_HISTORY" -> [value |-> history]
      [] TypeOf(message) = "GET_CONFIG" -> [value |-> getConfig(config)]
      [] TypeOf(message) = "GET_EXPIRED_TOKENS" -> [value |-> expiredTokens]
      [] TypeOf(message) = "GET_API_TRACKER" -> [value |-> apiTracker]
      [] TypeOf(message) = "GET_TRACKED_DOMAINS" -> [value |-> getTrackedDomains(apiTracker)]
      [] TypeOf(message) = "GET_API_TRACKER_FOR_DOMAIN" ->
            IF ObjHas(apiTracker, message.domain)
            THEN [value |-> ObjGet(apiTracker, message.domain)] ELSE Null

\* Where handleMessage stands at its first await
FirstAwait(message) ==
    CASE TypeOf(message) \in GetterTypes -> "m_get"
      [] TypeOf(message) \in ConfigTypes -> "m_getConfig"
      [] TypeOf(message) = "CLEAR_HISTORY" -> "m_clearHistory"
      [] TypeOf(message) = "REMOVE_ITEM" -> "m_removeGet"
      [] TypeOf(message) = "CLEAR_ALL" -> "m_clearAll"
      [] TypeOf(message) = "SET_CONFIG" -> "m_setConfig"
      [] TypeOf(message) = "CLEAR_EXPIRED_TOKENS" -> "m_clearExpired"
      [] TypeOf(message) = "CLEAR_API_TRACKER" ->
            IF "domain" \in DOMAIN message /\ ~Not(message.domain)
            THEN "m_trackerGet" ELSE "m_trackerSet"

Success == [success |-> TRUE]

\* A flag that any message with an `enabled` property sets
EnabledAfter_AnyType(message) ==
    IF "enabled" \in DOMAIN message THEN message.enabled ELSE isEnabled

\* isEnabled after the synchronous part: TOGGLE_ENABLED assigns message.enabled
EnabledAfter(message) ==
    IF TypeOf(message) = "TOGGLE_ENABLED" THEN message.enabled ELSE isEnabled

\* handleMessage(message, sender) up to its first await.  An unknown type and
\* GET_CAPABILITIES return at once; TOGGLE_ENABLED sets the flag before it
\* awaits getConfig.
HandleMessage(p, message) ==
    /\ Quiet(p)
    /\ calls < MaxCalls
    /\ calls' = calls + 1
    /\ LET pr == [P0 EXCEPT !.op = "handleMessage", !.message = message]
       IN  proc' = [proc EXCEPT ![p] =
              IF TypeOf(message) \notin MessageTypes
              THEN Finished(pr, "returned", [error |-> "Unknown message type"])
              ELSE IF TypeOf(message) = "GET_CAPABILITIES"
              THEN Finished(pr, "returned",
                            [value |-> getCapabilities(handlers, customHandlers)])
              ELSE [pr EXCEPT !.pc = FirstAwait(message),
                              !.data = IF TypeOf(message) = "SET_CONFIG"
                                       THEN message.config ELSE << >>]]
    /\ isEnabled' = EnabledAfter(message)
    /\ pre' = [pre EXCEPT ![p] = Store]
    /\ UNCHANGED <<capturedData, expiredTokens, history, apiTracker, config,
                   clock, handlers, customHandlers, sent, notified, apiQueue,
                   initializing, batch, faults>>

\* handleMessage: the getter resolves and its value is returned
MessageGet(p) ==
    /\ proc[p].pc = "m_get"
    /\ proc' = [proc EXCEPT ![p] =
                  Finished(proc[p], "returned", GetterValue(proc[p].message))]
    /\ UNCHANGED <<capturedData, expiredTokens, history, apiTracker, config,
                   clock, handlers, customHandlers, isEnabled, sent, notified,
                   apiQueue, initializing, pre, batch, calls, faults>>

\* clearHistory: the write of [] completes
ClearHistory(p) ==
    /\ proc[p].pc = "m_clearHistory"
    /\ history' = << >>
    /\ proc' = [proc EXCEPT ![p] = Finished(proc[p], "returned", Success)]
    /\ UNCHANGED <<capturedData, expiredTokens, apiTracker, config, clock,
                   handlers, customHandlers, isEnabled, sent, notified,
                   apiQueue, initializing, pre, batch, calls, faults>>

\* clearExpiredTokens: the write of [] completes
ClearExpiredTokens(p) ==
    /\ proc[p].pc = "m_clearExpired"
    /\ expiredTokens' = << >>
    /\ proc' = [proc EXCEPT ![p] = Finished(proc[p], "returned", Success)]
    /\ UNCHANGED <<capturedData, history, apiTracker, config, clock,
                   handlers, customHandlers, isEnabled, sent, notified,
                   apiQueue, initializing, pre, batch, calls, faults>>

\* clearAllCapturedData: setCapturedData({}) completes
ClearAllCapturedData(p) ==
    /\ proc[p].pc = "m_clearAll"
    /\ capturedData' = << >>
    /\ proc' = [proc EXCEPT ![p] = Finished(proc[p], "returned", Success)]
    /\ UNCHANGED <<expiredTokens, history, apiTracker, config, clock,
                   handlers, customHandlers, isEnabled, sent, notified,
                   apiQueue, initializing, pre, batch, calls, faults>>

\* A deletion that empties the map
WithoutKey_Cleared(data, key) == << >>

\* delete data[key]
WithoutKey(data, key) == [k \in DOMAIN data \ {key} |-> data[k]]

\* removeCapturedItem(key): getCapturedData resolves, the key is deleted from
\* the copy and setCapturedData is called
RemoveGet(p) ==
    /\ proc[p].pc = "m_removeGet"
    /\ proc' = [proc EXCEPT ![p] =
          [proc[p] EXCEPT !.pc = "m_removeSet",
                          !.data = WithoutKey(capturedData, proc[p].message.key)]]
    /\ UNCHANGED <<capturedData, expiredTokens, history, apiTracker, config,
                   clock, handlers, customHandlers, isEnabled, sent, notified,
                   apiQueue, initializing, pre, batch, calls, faults>>

\* removeCapturedItem(key): setCapturedData completes; handleMessage calls
\* getCapturedData
RemoveSet(p) ==
    /\ proc[p].pc = "m_removeSet"
    /\ capturedData' = proc[p].data
    /\ proc' = [proc EXCEPT ![p] = [proc[p] EXCEPT !.pc = "m_get"]]
    /\ UNCHANGED <<expiredTokens, history, apiTracker, config, clock,
                   handlers, customHandlers, isEnabled, sent, notified,
                   apiQueue, initializing, pre, batch, calls, faults>>

\* config.rules || []
RulesOf(cfg) == IF "rules" \in DOMAIN cfg THEN cfg.rules ELSE << >>

\* The config TOGGLE_ENABLED, ADD_CUSTOM_RULE and REMOVE_CUSTOM_RULE write,
\* given the one they read
NextConfig(cfg, message) ==
    CASE TypeOf(message) = "TOGGLE_ENABLED" -> Spread(cfg, [enabled |-> isEnabled])
      [] TypeOf(message) = "ADD_CUSTOM_RULE" ->
            Spread(cfg, [rules |-> Append(RulesOf(cfg), message.rule)])
      [] TypeOf(message) = "REMOVE_CUSTOM_RULE" ->
            Spread(cfg, [rules |-> SelectSeq(RulesOf(cfg),
                                             LAMBDA r : ~("name" \in DOMAIN r
                                                          /\ r.name = message.name))])

\* handleMessage: getConfig resolves, the config is changed and setConfig is
\* called
MessageGetConfig(p) ==
    /\ proc[p].pc = "m_getConfig"
    /\ proc' = [proc EXCEPT ![p] =
          [proc[p] EXCEPT !.pc = "m_setConfig",
                          !.data = NextConfig(getConfig(config), proc[p].message)]]
    /\ UNCHANGED <<capturedData, expiredTokens, history, apiTracker, config,
                   clock, handlers, customHandlers, isEnabled, sent, notified,
                   apiQueue, initializing, pre, batch, calls, faults>>

\* What handleMessage returns after setConfig
ConfigReturn(message, cfg) ==
    CASE TypeOf(message) = "SET_CONFIG" -> Success
      [] TypeOf(message) = "TOGGLE_ENABLED" -> [enabled |-> isEnabled]
      [] OTHER -> [success |-> TRUE, rules |-> cfg.rules]

\* setConfig: the write of 'config' completes, which starts initialize()
\* through the onChanged listener; the handler that awaits the write goes on
\* in a step of its own, before or after that initialize() has ended
SetConfig(p) ==
    /\ proc[p].pc = "m_setConfig"
    /\ config' = proc[p].data
    /\ initializing' = initializing + 1
    /\ proc' = [proc EXCEPT ![p] = [proc[p] EXCEPT !.pc = "m_afterSetConfig"]]
    /\ UNCHANGED <<capturedData, expiredTokens, history, apiTracker, clock,
                   handlers, customHandlers, isEnabled, sent, notified, apiQueue,
                   pre, batch, calls, faults>>

\* handleMessage after `await setConfig`: SET_CONFIG sets the flag and
\* initializes the manager, ADD_CUSTOM_RULE and REMOVE_CUSTOM_RULE change its
\* custom handlers, and the response is returned
AfterSetConfig(p) ==
    /\ proc[p].pc = "m_afterSetConfig"
    /\ \E message \in {proc[p].message}, cfg \in {proc[p].data} :
          /\ isEnabled' = IF TypeOf(message) = "SET_CONFIG"
                          THEN (IF "enabled" \in DOMAIN cfg THEN cfg.enabled ELSE TRUE)
                          ELSE isEnabled
          /\ handlers' = IF TypeOf(message) = "SET_CONFIG"
                         THEN BuiltinHandlers(
                                [authToken |-> IF "authTokenConfig" \in DOMAIN cfg
                                               THEN cfg.authTokenConfig ELSE << >>,
                                 cookie |-> IF "cookieConfig" \in DOMAIN cfg
                                            THEN cfg.cookieConfig ELSE << >>])
                         ELSE handlers
          /\ customHandlers' =
                CASE TypeOf(message) = "SET_CONFIG" -> createCustomHandlers(RulesOf(cfg))
                  [] TypeOf(message) = "ADD_CUSTOM_RULE" ->
                        Append(customHandlers,
                               CustomHandler(Spread(Pick(message.rule, {"name", "displayName"}),
                                                    [rule |-> message.rule])))
                  [] TypeOf(message) = "REMOVE_CUSTOM_RULE" ->
                        SelectSeq(customHandlers, LAMBDA h : h.name # message.name)
                  [] OTHER -> customHandlers
          /\ proc' = [proc EXCEPT ![p] =
                Finished(proc[p], "returned", ConfigReturn(message, cfg))]
    /\ UNCHANGED <<capturedData, expiredTokens, history, apiTracker, config,
                   clock, sent, notified, apiQueue, initializing, pre, batch,
                   calls, faults>>

\* clearApiTracker(pageDomain): getApiTracker resolves, the bucket is deleted
\* from the copy and the write is issued
ClearTrackerGet(p) ==
    /\ proc[p].pc = "m_trackerGet"
    /\ proc' = [proc EXCEPT ![p] =
          [proc[p] EXCEPT !.pc = "m_trackerSet",
                          !.data = ObjDelete(apiTracker, proc[p].message.domain)]]
    /\ UNCHANGED <<capturedData, expiredTokens, history, apiTracker, config,
                   clock, handlers, customHandlers, isEnabled, sent, notified,
                   apiQueue, initializing, pre, batch, calls, faults>>

\* clearApiTracker: the write of the tracker, {} without a page domain,
\* completes
ClearTrackerSet(p) ==
    /\ proc[p].pc = "m_trackerSet"
    /\ apiTracker' = proc[p].data
    /\ proc' = [proc EXCEPT ![p] = Finished(proc[p], "returned", Success)]
    /\ UNCHANGED <<capturedData, expiredTokens, history, config, clock,
                   handlers, customHandlers, isEnabled, sent, notified,
                   apiQueue, initializing, pre, batch, calls, faults>>

\* handleMessage, resumption after an await
MessageStep(p) ==
    \/ MessageGet(p)
    \/ ClearHistory(p)
    \/ ClearExpiredTokens(p)
    \/ ClearAllCapturedData(p)
    \/ RemoveGet(p)
    \/ RemoveSet(p)
    \/ MessageGetConfig(p)
    \/ SetConfig(p)
    \/ AfterSetConfig(p)
    \/ ClearTrackerGet(p)
    \/ ClearTrackerSet(p)

-----------------------------------------------------------------------------
(* Inputs *)

str_a_io == <<"a", ".", "i", "o">>
str_token == <<"t", "o", "k", "e", "n">>
str_root == <<"/">>

Request(hostname, pathname, search, headers) ==
    [url |-> [valid |-> TRUE, scheme |-> str_https, hostname |-> hostname,
              pathname |-> pathname, search |-> search],
     method |-> str_GET,
     type |-> "script",
     tabId |-> 2,
     requestHeaders |-> headers]

Header(name, value) == [name |-> name, value |-> value]

\* GET https://api.example.com/v1/users/123 with Authorization: Bearer abc123
ReqAbc ==
    Request(str_api_example_com, str_v1_users_123, << >>,
            <<Header(str_Authorization, str_Bearer_abc123)>>)

\* The same request with the token rotated
ReqXyz ==
    Request(str_api_example_com, str_v1_users_123, << >>,
            <<Header(str_Authorization, str_Bearer_xyz789)>>)

\* A request two handlers match: an Authorization header and ?token=
ReqTwo ==
    Request(str_a_io, str_root, <<<<str_token, str_xyz789>>>>,
            <<Header(str_Authorization, str_Bearer_abc123)>>)

Requests == {ReqAbc, ReqXyz, ReqTwo}

\* The records the built-in handlers extract from request d, with their keys
CallsOf(d) ==
    {<<generateKey(r), r>> :
        r \in Range(processRequest(BuiltinHandlers(<< >>), << >>, d))}

\* The records extracted from the requests, with their keys
SampleCalls == UNION {CallsOf(d) : d \in Requests}

EmptyStore == [capturedData |-> << >>, expiredTokens |-> << >>, history |-> << >>]

\* The store after record r has been captured under key at time 0
StoreWith(key, r) ==
    [capturedData |-> ObjPut(<< >>, key, NewEntry(r, 0)),
     expiredTokens |-> << >>,
     history |-> <<HistoryEntry(key, r, 0, FALSE)>>]

\* The record and key of a sample call
StoreOfCall(c) == StoreWith(c[1], c[2])

\* The store after a worker on an empty store has handled request d at time 0
StoreAfter(d) ==
    StoreOfCall(CHOOSE c \in SampleCalls :
                   c[2] = processRequest(BuiltinHandlers(<< >>), << >>, d)[1])

-----------------------------------------------------------------------------
(* Spec: the service worker, requests intercepted while others are in flight *)

\* chrome.storage.local outlives the service worker: the worker starts on an
\* empty store or on the one an earlier run left
Init ==
    /\ \E s \in {EmptyStore, StoreAfter(ReqAbc)} :
          /\ capturedData = s.capturedData
          /\ expiredTokens = s.expiredTokens
          /\ history = s.history
    /\ apiTracker = << >>
    /\ config = Null
    /\ clock = 0
    /\ handlers = << >>
    /\ customHandlers = << >>
    /\ isEnabled = TRUE
    /\ proc = [p \in Procs |-> P0]
    /\ sent = << >>
    /\ notified = << >>
    /\ apiQueue = << >>
    /\ initializing = 1
    /\ pre = [p \in Procs |-> EmptyStore]
    /\ batch = [base |-> EmptyStore, updates |-> [p \in Procs |-> << >>]]
    /\ calls = 0
    /\ faults = 0

Step(p) ==
    \/ GetConfigFilter(p)
    \/ GetCapturedData(p)
    \/ GetExpiredTokens(p)
    \/ SetExpiredTokens(p)
    \/ SetCapturedData(p)
    \/ GetHistory(p)
    \/ SetHistory(p)
    \/ GetConfigNotify(p)

Next ==
    \/ InitializeDone
    \/ \E p \in Procs, d \in Requests : HandleRequest(p, d)
    \/ \E p \in Procs : Step(p)

Spec == Init /\ [][Next]_vars

-----------------------------------------------------------------------------
(* SpecStorage: the storage manager called by one caller, each call awaited  *)
(* before the next                                                           *)

\* n copies of one entry
Filled(entry, n) == [i \in 1..n |-> entry]

\* A store one short of both caps: an earlier run captured ReqAbc at time 0,
\* then logged and expired entries up to one below the caps
NearlyFullStore ==
    LET s == StoreAfter(ReqAbc)
        k == CHOOSE key \in DOMAIN s.capturedData : TRUE
    IN  [capturedData |-> s.capturedData,
         expiredTokens |-> Filled(ExpiredEntry(k, s.capturedData[k], 0),
                                  MAX_EXPIRED_TOKENS - 1),
         history |-> Filled(s.history[1], MAX_HISTORY_ITEMS - 1)]

InitStorage ==
    /\ \E s \in {EmptyStore, StoreAfter(ReqAbc), NearlyFullStore} :
          /\ capturedData = s.capturedData
          /\ expiredTokens = s.expiredTokens
          /\ history = s.history
    /\ apiTracker = << >>
    /\ config = Null
    /\ clock = 0
    /\ handlers = << >>
    /\ customHandlers = << >>
    /\ isEnabled = TRUE
    /\ proc = [p \in Procs |-> P0]
    /\ sent = << >>
    /\ notified = << >>
    /\ apiQueue = << >>
    /\ initializing = 0
    /\ pre = [p \in Procs |-> EmptyStore]
    /\ batch = [base |-> EmptyStore, updates |-> [p \in Procs |-> << >>]]
    /\ calls = 0
    /\ faults = 0

NextStorage ==
    \/ \E c \in SampleCalls : CallUpdateCapturedItem(1, c[1], c[2])
    \/ \E c \in CallsOf(ReqXyz) : CallAddToExpiredTokens(1, c[1], NewEntry(c[2], 0))
    \/ \E c \in CallsOf(ReqAbc), b \in BOOLEAN : CallAddToHistory(1, c[1], c[2], b)
    \/ GetCapturedData(1)
    \/ GetExpiredTokens(1)
    \/ SetExpiredTokens(1)
    \/ SetCapturedData(1)
    \/ GetHistory(1)
    \/ SetHistory(1)

SpecStorage == InitStorage /\ [][NextStorage]_vars

-----------------------------------------------------------------------------
(* SpecFault: the service worker handling one request at a time, on a store  *)
(* whose calls may fail                                                      *)

NextFault ==
    \/ InitializeDone
    \/ \E d \in Requests : HandleRequest(1, d)
    \/ Step(1)
    \/ Fault(1)

SpecFault == Init /\ [][NextFault]_vars

-----------------------------------------------------------------------------
(* SpecDispatch: the handler manager, initialized, given and relieved of      *)
(* custom rules, and asked to process requests                               *)

str_bad_pattern == <<"(", "*">>
str_nomatch == <<"n", "o", "m", "a", "t", "c", "h">>

\* A request without headers or query string
ReqNone == Request(str_a_io, str_root, << >>, << >>)

\* A request whose Authorization header carries no `value` (a binary header)
ReqNoValue == Request(str_a_io, str_root, << >>, <<[name |-> str_Authorization]>>)

DispatchRequests == {ReqAbc, ReqTwo, ReqNone, ReqNoValue}

\* A rule that reads ?token=
RuleQuery == [extractFrom |-> "query", extractKey |-> str_token]

\* A rule that reads a header and names none: extract throws
RuleNoKey == [extractFrom |-> "header"]

\* A rule whose URL pattern is no regular expression: matches throws
RuleBadPattern ==
    [urlPattern |-> str_bad_pattern, extractFrom |-> "query", extractKey |-> str_token]

\* A rule for other URLs
RuleElsewhere ==
    [name |-> str_nomatch, urlPattern |-> str_nomatch, extractFrom |-> "query",
     extractKey |-> str_token]

DispatchRules == {RuleQuery, RuleNoKey, RuleBadPattern, RuleElsewhere}

DispatchConfigs ==
    {<< >>,
     [authToken |-> [urlPatterns |-> <<str_bad_pattern>>]],
     [customRules |-> <<RuleNoKey, RuleQuery>>]}

\* HandlerManager.initialize(config).  A change of the manager ends the record
\* of the last call of processRequest.
ManagerInitialize(cfg) ==
    /\ handlers' = BuiltinHandlers(cfg)
    /\ customHandlers' = IF "customRules" \in DOMAIN cfg /\ Len(cfg.customRules) >= 0
                          THEN createCustomHandlers(cfg.customRules)
                          ELSE customHandlers
    /\ proc' = [proc EXCEPT ![1] = P0]
    /\ UNCHANGED <<capturedData, expiredTokens, history, apiTracker, config,
                   clock, isEnabled, sent, notified, apiQueue, initializing,
                   pre, batch, calls, faults>>

\* HandlerManager.addCustomHandler(rule)
AddCustomHandler(rule) ==
    /\ Len(customHandlers) < MaxRules
    /\ customHandlers' =
          Append(customHandlers,
                 CustomHandler(Spread(Pick(rule, {"name", "displayName"}),
                                      [rule |-> rule])))
    /\ proc' = [proc EXCEPT ![1] = P0]
    /\ UNCHANGED <<capturedData, expiredTokens, history, apiTracker, config,
                   clock, handlers, isEnabled, sent, notified, apiQueue,
                   initializing, pre, batch, calls, faults>>

\* HandlerManager.removeCustomHandler(name)
RemoveCustomHandler(name) ==
    /\ customHandlers' = SelectSeq(customHandlers, LAMBDA h : h.name # name)
    /\ proc' = [proc EXCEPT ![1] = P0]
    /\ UNCHANGED <<capturedData, expiredTokens, history, apiTracker, config,
                   clock, handlers, isEnabled, sent, notified, apiQueue,
                   initializing, pre, batch, calls, faults>>

\* HandlerManager.processRequest(details), called and returned; `units` keeps
\* the handlers the call looped over
CallProcessRequest(details) ==
    /\ Quiet(1)
    /\ \E results \in {processRequest(handlers, customHandlers, details)} :
          proc' = [proc EXCEPT ![1] =
             Finished([P0 EXCEPT !.op = "processRequest", !.details = details,
                                 !.results = results,
                                 !.units = getAllHandlers(handlers, customHandlers)],
                      "returned", Null)]
    /\ UNCHANGED <<capturedData, expiredTokens, history, apiTracker, config,
                   clock, handlers, customHandlers, isEnabled, sent, notified,
                   apiQueue, initializing, pre, batch, calls, faults>>

\* new HandlerManager(): no handlers yet
InitDispatch ==
    /\ capturedData = << >>
    /\ expiredTokens = << >>
    /\ history = << >>
    /\ apiTracker = << >>
    /\ config = Null
    /\ clock = 0
    /\ handlers = << >>
    /\ customHandlers = << >>
    /\ isEnabled = TRUE
    /\ proc = [p \in Procs |-> P0]
    /\ sent = << >>
    /\ notified = << >>
    /\ apiQueue = << >>
    /\ initializing = 0
    /\ pre = [p \in Procs |-> EmptyStore]
    /\ batch = [base |-> EmptyStore, updates |-> [p \in Procs |-> << >>]]
    /\ calls = 0
    /\ faults = 0

NextDispatch ==
    \/ \E cfg \in DispatchConfigs : ManagerInitialize(cfg)
    \/ \E rule \in DispatchRules : AddCustomHandler(rule)
    \/ \E h \in Range(customHandlers) : RemoveCustomHandler(h.name)
    \/ \E d \in DispatchRequests : CallProcessRequest(d)

SpecDispatch == InitDispatch /\ [][NextDispatch]_vars

-----------------------------------------------------------------------------
(* SpecDomain: shouldCaptureDomain applied to domains under the lists of a   *)
(* stored config                                                             *)

str_x_a_io == <<"x", ".", "a", ".", "i", "o">>
str_xa_io == <<"x", "a", ".", "i", "o">>
str_b_io == <<"b", ".", "i", "o">>
str_star_a_io == <<"*", ".", "a", ".", "i", "o">>

FilterDomains == {<< >>, NullString, str_a_io, str_x_a_io, str_xa_io, str_b_io}

FilterPatterns == {<< >>, NullString, str_a_io, str_star_a_io, str_b_io}

\* The lists of at most n patterns
RECURSIVE PatternLists(_)
PatternLists(n) ==
    IF n = 0 THEN {<< >>}
    ELSE PatternLists(n - 1) \cup
         {Append(l, q) : l \in {m \in PatternLists(n - 1) : Len(m) = n - 1},
                         q \in FilterPatterns}

\* Configs: one without lists, and the default config with the lists set
FilterConfigs ==
    {[enabled |-> TRUE]} \cup
    {[getDefaultConfig EXCEPT !.domainAllowlist = a, !.domainBlocklist = b] :
        a \in PatternLists(MaxPatterns), b \in PatternLists(MaxPatterns)}

\* shouldCaptureDomain(domain, config), called and returned
CallShouldCaptureDomain(domain) ==
    /\ Quiet(1)
    /\ proc' = [proc EXCEPT ![1] =
          Finished([P0 EXCEPT !.op = "shouldCaptureDomain", !.key = domain],
                   "returned", [value |-> shouldCaptureDomain(domain, config)])]
    /\ UNCHANGED <<capturedData, expiredTokens, history, apiTracker, config,
                   clock, handlers, customHandlers, isEnabled, sent, notified,
                   apiQueue, initializing, pre, batch, calls, faults>>

InitDomain ==
    /\ capturedData = << >>
    /\ expiredTokens = << >>
    /\ history = << >>
    /\ apiTracker = << >>
    /\ config \in FilterConfigs
    /\ clock = 0
    /\ handlers = << >>
    /\ customHandlers = << >>
    /\ isEnabled = TRUE
    /\ proc = [p \in Procs |-> P0]
    /\ sent = << >>
    /\ notified = << >>
    /\ apiQueue = << >>
    /\ initializing = 0
    /\ pre = [p \in Procs |-> EmptyStore]
    /\ batch = [base |-> EmptyStore, updates |-> [p \in Procs |-> << >>]]
    /\ calls = 0
    /\ faults = 0

NextDomain == \E domain \in FilterDomains : CallShouldCaptureDomain(domain)

SpecDomain == InitDomain /\ [][NextDomain]_vars

-----------------------------------------------------------------------------
(* SpecNormalize: normalizePathPattern and normalizeApiPath applied to paths, *)
(* and again to what they return                                             *)

seg_uuid == <<"5", "5", "0", "e", "8", "4", "0", "0", "-", "e", "2", "9", "b", "-", "4", "1", "d", "4", "-", "a", "7", "1", "6", "-", "4", "4", "6", "6", "5", "5", "4", "4", "0", "0", "0", "0">>
seg_digits == <<"4", "2">>
seg_long == <<"a", "b", "c", "d", "e", "f", "g", "h", "i", "j", "0", "1", "2", "3", "4", "5", "6", "7", "8", "9">>
seg_short == <<"a", "b", "c", "d", "e", "f", "g", "h", "i", "j", "0", "1", "2", "3", "4", "5", "6", "7", "8">>
seg_users == <<"u", "s", "e", "r", "s">>

\* The segments a normalizer replaces
IdSegments == {seg_uuid, seg_digits, seg_long}

\* The segments paths are built from: the empty one is what '//' holds
Segments == IdSegments \cup {str_star, seg_short, seg_users, << >>}

\* The paths of exactly n segments, each behind a '/'
RECURSIVE PathsOf(_)
PathsOf(n) ==
    IF n = 0 THEN {<< >>}
    ELSE {path \o <<"/">> \o seg : path \in PathsOf(n - 1), seg \in Segments}

Paths == UNION {PathsOf(n) : n \in 0..MaxSegments}

\* What the next call is applied to: the path given, then what was returned
PathInput(pr) == IF pr.pc = "done" THEN pr.ret.value ELSE pr.key

\* normalizePathPattern(path), called and returned; idx counts the calls
CallNormalizePathPattern ==
    /\ proc[1].idx < 2
    /\ proc' = [proc EXCEPT ![1] =
          Finished([P0 EXCEPT !.op = "normalizePathPattern",
                              !.key = PathInput(proc[1]),
                              !.idx = proc[1].idx + 1],
                   "returned",
                   [value |-> normalizePathPattern(PathInput(proc[1]))])]
    /\ UNCHANGED <<capturedData, expiredTokens, history, apiTracker, config,
                   clock, handlers, customHandlers, isEnabled, sent, notified,
                   apiQueue, initializing, pre, batch, calls, faults>>

\* normalizeApiPath(path), called and returned
CallNormalizeApiPath ==
    /\ proc[1].idx < 2
    /\ proc' = [proc EXCEPT ![1] =
          Finished([P0 EXCEPT !.op = "normalizeApiPath",
                              !.key = PathInput(proc[1]),
                              !.idx = proc[1].idx + 1],
                   "returned",
                   [value |-> normalizeApiPath(PathInput(proc[1]))])]
    /\ UNCHANGED <<capturedData, expiredTokens, history, apiTracker, config,
                   clock, handlers, customHandlers, isEnabled, sent, notified,
                   apiQueue, initializing, pre, batch, calls, faults>>

InitNormalize ==
    /\ capturedData = << >>
    /\ expiredTokens = << >>
    /\ history = << >>
    /\ apiTracker = << >>
    /\ config = Null
    /\ clock = 0
    /\ handlers = << >>
    /\ customHandlers = << >>
    /\ isEnabled = TRUE
    /\ \E path \in Paths : proc = [p \in Procs |-> IF p = 1 THEN [P0 EXCEPT !.key = path] ELSE P0]
    /\ sent = << >>
    /\ notified = << >>
    /\ apiQueue = << >>
    /\ initializing = 0
    /\ pre = [p \in Procs |-> EmptyStore]
    /\ batch = [base |-> EmptyStore, updates |-> [p \in Procs |-> << >>]]
    /\ calls = 0
    /\ faults = 0

NextNormalize ==
    \/ CallNormalizePathPattern
    \/ CallNormalizeApiPath

SpecNormalize == InitNormalize /\ [][NextNormalize]_vars

-----------------------------------------------------------------------------
(* SpecEquivalence: normalizePathPattern applied to a path, with a query     *)
(* string or none, and normalizeApiPath applied to the pathname of it        *)

\* The query strings a path is given: none, a bare '?', a numeric value, a
\* value holding a '/', and a second '?'
Queries ==
    {<< >>,
     <<"?">>,
     <<"?", "i", "d", "=", "4", "2">>,
     <<"?", "n", "/", "4", "2">>,
     <<"?", "a", "?", "4", "2">>}

QueryPaths == {path \o query : path \in Paths, query \in Queries}

\* The part of a path before its first '?': what URL.pathname holds
PathnameOf(path) ==
    LET marks == {i \in 1..Len(path) : path[i] = "?"}
    IN  IF marks = {} THEN path
        ELSE SubSeq(path, 1, (CHOOSE i \in marks : \A j \in marks : i <= j) - 1)

\* normalizePathPattern(path) of generateKey, called and returned
CallPathPatternOfKey ==
    /\ proc[1].pc = "idle"
    /\ proc' = [proc EXCEPT ![1] =
          Finished([P0 EXCEPT !.op = "normalizePathPattern", !.key = proc[1].key],
                   "returned",
                   [value |-> normalizePathPattern(proc[1].key)])]
    /\ UNCHANGED <<capturedData, expiredTokens, history, apiTracker, config,
                   clock, handlers, customHandlers, isEnabled, sent, notified,
                   apiQueue, initializing, pre, batch, calls, faults>>

\* normalizeApiPath(url.pathname) of trackApiRequest, called and returned
CallApiPathOfPathname ==
    /\ proc[2].pc = "idle"
    /\ proc' = [proc EXCEPT ![2] =
          Finished([P0 EXCEPT !.op = "normalizeApiPath", !.key = proc[2].key],
                   "returned",
                   [value |-> normalizeApiPath(PathnameOf(proc[2].key))])]
    /\ UNCHANGED <<capturedData, expiredTokens, history, apiTracker, config,
                   clock, handlers, customHandlers, isEnabled, sent, notified,
                   apiQueue, initializing, pre, batch, calls, faults>>

InitEquivalence ==
    /\ capturedData = << >>
    /\ expiredTokens = << >>
    /\ history = << >>
    /\ apiTracker = << >>
    /\ config = Null
    /\ clock = 0
    /\ handlers = << >>
    /\ customHandlers = << >>
    /\ isEnabled = TRUE
    /\ \E path \in QueryPaths : proc = [p \in Procs |-> [P0 EXCEPT !.key = path]]
    /\ sent = << >>
    /\ notified = << >>
    /\ apiQueue = << >>
    /\ initializing = 0
    /\ pre = [p \in Procs |-> EmptyStore]
    /\ batch = [base |-> EmptyStore, updates |-> [p \in Procs |-> << >>]]
    /\ calls = 0
    /\ faults = 0

NextEquivalence ==
    \/ CallPathPatternOfKey
    \/ CallApiPathOfPathname

SpecEquivalence == InitEquivalence /\ [][NextEquivalence]_vars

-----------------------------------------------------------------------------
(* SpecRoot: extractRootDomain applied to hostnames built from labels        *)

lbl_app == <<"a", "p", "p">>
lbl_example == <<"e", "x", "a", "m", "p", "l", "e">>
lbl_co == <<"c", "o">>
lbl_uk == <<"u", "k">>
lbl_com == <<"c", "o", "m">>
lbl_192 == <<"1", "9", "2">>

\* The labels hostnames are built from: the empty one is what 'a..b' and a
\* trailing dot hold
Labels == {lbl_app, lbl_example, lbl_co, lbl_uk, lbl_com, lbl_192, str_localhost, << >>}

\* The label sequences of exactly n labels
RECURSIVE LabelsOf(_)
LabelsOf(n) ==
    IF n = 0 THEN {<< >>}
    ELSE {Append(labels, l) : labels \in LabelsOf(n - 1), l \in Labels}

Hostnames == UNION {LabelsOf(n) : n \in 0..MaxLabels}

\* extractRootDomain(hostname), called and returned
CallExtractRootDomain ==
    /\ proc[1].pc = "idle"
    /\ proc' = [proc EXCEPT ![1] =
          Finished([proc[1] EXCEPT !.op = "extractRootDomain"],
                   "returned",
                   [value |-> extractRootDomain(proc[1].key)])]
    /\ UNCHANGED <<capturedData, expiredTokens, history, apiTracker, config,
                   clock, handlers, customHandlers, isEnabled, sent, notified,
                   apiQueue, initializing, pre, batch, calls, faults>>

InitRoot ==
    /\ capturedData = << >>
    /\ expiredTokens = << >>
    /\ history = << >>
    /\ apiTracker = << >>
    /\ config = Null
    /\ clock = 0
    /\ handlers = << >>
    /\ customHandlers = << >>
    /\ isEnabled = TRUE
    /\ \E labels \in Hostnames :
          proc = [p \in Procs |->
                    IF p = 1 THEN [P0 EXCEPT !.details = [labels |-> labels],
                                             !.key = join(labels, ".")]
                    ELSE P0]
    /\ sent = << >>
    /\ notified = << >>
    /\ apiQueue = << >>
    /\ initializing = 0
    /\ pre = [p \in Procs |-> EmptyStore]
    /\ batch = [base |-> EmptyStore, updates |-> [p \in Procs |-> << >>]]
    /\ calls = 0
    /\ faults = 0

NextRoot == CallExtractRootDomain

SpecRoot == InitRoot /\ [][NextRoot]_vars

-----------------------------------------------------------------------------
(* SpecAuthType: detectAuthType applied to lists of headers                  *)

str_X_API_Key == <<"X", "-", "A", "P", "I", "-", "K", "e", "y">>
str_Accept == <<"A", "c", "c", "e", "p", "t">>
str_Basic_abc123 == <<"B", "a", "s", "i", "c", " ", "a", "b", "c", "1", "2", "3">>

\* The names of the headers: two that tell auth, one that does not
AuthHeaderNames == {str_Authorization, str_X_API_Key, str_Accept}

\* The shapes of the value of a header
ValueShapes == {"absent", "empty", "bearer", "basic", "other"}

\* A header of a name and a shape
ShapedHeader(name, shape) ==
    CASE shape = "absent" -> [name |-> name]
      [] shape = "empty" -> Header(name, << >>)
      [] shape = "bearer" -> Header(name, str_Bearer_abc123)
      [] shape = "basic" -> Header(name, str_Basic_abc123)
      [] shape = "other" -> Header(name, str_abc123)

\* The lists of n <<name, shape>> pairs
RECURSIVE ShapesOf(_)
ShapesOf(n) ==
    IF n = 0 THEN {<< >>}
    ELSE {Append(l, <<name, shape>>) :
             l \in ShapesOf(n - 1), name \in AuthHeaderNames, shape \in ValueShapes}

HeaderShapes == UNION {ShapesOf(n) : n \in 0..MaxHeaders}

\* detectAuthType(requestHeaders), called and returned
CallDetectAuthType ==
    /\ proc[1].pc = "idle"
    /\ proc' = [proc EXCEPT ![1] =
          Finished([proc[1] EXCEPT !.op = "detectAuthType"],
                   "returned",
                   detectAuthType(proc[1].details.requestHeaders))]
    /\ UNCHANGED <<capturedData, expiredTokens, history, apiTracker, config,
                   clock, handlers, customHandlers, isEnabled, sent, notified,
                   apiQueue, initializing, pre, batch, calls, faults>>

InitAuthType ==
    /\ capturedData = << >>
    /\ expiredTokens = << >>
    /\ history = << >>
    /\ apiTracker = << >>
    /\ config = Null
    /\ clock = 0
    /\ handlers = << >>
    /\ customHandlers = << >>
    /\ isEnabled = TRUE
    /\ \E shapes \in HeaderShapes :
          proc = [p \in Procs |->
                    IF p = 1
                    THEN [P0 EXCEPT !.details =
                            [shapes |-> shapes,
                             requestHeaders |->
                                [i \in 1..Len(shapes) |->
                                    ShapedHeader(shapes[i][1], shapes[i][2])]]]
                    ELSE P0]
    /\ sent = << >>
    /\ notified = << >>
    /\ apiQueue = << >>
    /\ initializing = 0
    /\ pre = [p \in Procs |-> EmptyStore]
    /\ batch = [base |-> EmptyStore, updates |-> [p \in Procs |-> << >>]]
    /\ calls = 0
    /\ faults = 0

NextAuthType == CallDetectAuthType

SpecAuthType == InitAuthType /\ [][NextAuthType]_vars

-----------------------------------------------------------------------------
(* SpecEndpoints: trackApiRequest called for one page domain, each call      *)
(* awaited before the next, on a bucket that is empty, or full               *)

str_d == <<"d">>
str_e == <<"/", "e">>
str_n == <<"/", "n">>
str_m == <<"/", "m">>

\* The details trackApiRequest is given
TrackDetails(hostname, pathname, search) ==
    [url |-> [valid |-> TRUE, scheme |-> str_https, hostname |-> hostname,
              pathname |-> pathname, search |-> search],
     method |-> str_GET,
     requestHeaders |-> << >>]

\* A request whose URL does not parse
BadDetails ==
    [url |-> [valid |-> FALSE, scheme |-> << >>, hostname |-> << >>,
              pathname |-> << >>, search |-> << >>],
     method |-> str_GET,
     requestHeaders |-> << >>]

\* The n-th page domain, and the n-th endpoint of a.io
PageDomain(n) == str_d \o Decimal(n)
EndpointDetails(n) == TrackDetails(str_a_io, str_e \o Decimal(n), << >>)

\* The bucket of PageDomain(d) after endpoints 1..n were tracked at time 0,
\* once each
FullBucket(d, n) ==
    [displayName |-> PageDomain(d),
     lastVisited |-> 0,
     totalRequests |-> n,
     endpoints |-> [i \in 1..n |->
                      <<EndpointKey(TrackedRequest(EndpointDetails(i))),
                        NewEndpoint(TrackedRequest(EndpointDetails(i)), 0)>>],
     stats |-> [uniqueEndpoints |-> n,
                byApiDomain |-> <<<<str_a_io, n>>>>,
                byMethod |-> <<<<str_GET, n>>>>]]

\* The tracker after endpoints 1..n were tracked for PageDomain(1) at time 0
FullEndpoints(n) == <<<<PageDomain(1), FullBucket(1, n)>>>>

EndpointCalls ==
    {EndpointDetails(1),
     TrackDetails(str_a_io, str_n, << >>),
     TrackDetails(str_b_io, str_m, << >>),
     BadDetails}

InitEndpoints ==
    /\ capturedData = << >>
    /\ expiredTokens = << >>
    /\ history = << >>
    /\ apiTracker \in {<< >>, FullEndpoints(MAX_ENDPOINTS_PER_DOMAIN - 1),
                        FullEndpoints(MAX_ENDPOINTS_PER_DOMAIN)}
    /\ config = Null
    /\ clock = 0
    /\ handlers = << >>
    /\ customHandlers = << >>
    /\ isEnabled = TRUE
    /\ proc = [p \in Procs |-> P0]
    /\ sent = << >>
    /\ notified = << >>
    /\ apiQueue = << >>
    /\ initializing = 0
    /\ pre = [p \in Procs |-> EmptyStore]
    /\ batch = [base |-> EmptyStore, updates |-> [p \in Procs |-> << >>]]
    /\ calls = 0
    /\ faults = 0

NextEndpoints ==
    \/ \E d \in EndpointCalls : TrackApiRequest(1, PageDomain(1), d)
    \/ GetApiTracker(1)
    \/ SetApiTracker(1)

SpecEndpoints == InitEndpoints /\ [][NextEndpoints]_vars

-----------------------------------------------------------------------------
(* SpecPages: trackApiRequest called for page domains, each call awaited     *)
(* before the next, on a tracker that is empty, or full                      *)

\* The tracker after endpoint 1 was tracked at time 0 for the page domains
\* 1..m, once each
FullPages(m) == [i \in 1..m |-> <<PageDomain(i), FullBucket(i, 1)>>]

PageCalls == {PageDomain(0), PageDomain(1), PageDomain(MAX_TRACKED_DOMAINS + 1)}

InitPages ==
    /\ capturedData = << >>
    /\ expiredTokens = << >>
    /\ history = << >>
    /\ apiTracker \in {<< >>, FullPages(MAX_TRACKED_DOMAINS - 1),
                        FullPages(MAX_TRACKED_DOMAINS)}
    /\ config = Null
    /\ clock = 0
    /\ handlers = << >>
    /\ customHandlers = << >>
    /\ isEnabled = TRUE
    /\ proc = [p \in Procs |-> P0]
    /\ sent = << >>
    /\ notified = << >>
    /\ apiQueue = << >>
    /\ initializing = 0
    /\ pre = [p \in Procs |-> EmptyStore]
    /\ batch = [base |-> EmptyStore, updates |-> [p \in Procs |-> << >>]]
    /\ calls = 0
    /\ faults = 0

NextPages ==
    \/ \E pageDomain \in PageCalls, d \in {EndpointDetails(1), BadDetails} :
          TrackApiRequest(1, pageDomain, d)
    \/ GetApiTracker(1)
    \/ SetApiTracker(1)

SpecPages == InitPages /\ [][NextPages]_vars

-----------------------------------------------------------------------------
(* SpecExamples: trackApiRequest called for one endpoint with query strings, *)
(* each call awaited before the next                                         *)

str_s == <<"/", "s">>
str_k == <<"k">>

\* A request to https://a.io/s with the values given for ?k=
ExampleDetails(values) ==
    TrackDetails(str_a_io, str_s, [i \in 1..Len(values) |-> <<str_k, values[i]>>])

\* The tracker after /s?k=1&k=2&k=3&k=4 and then /s?k=1 were tracked at time 0
ExamplesTracker ==
    Tracked(Tracked(<< >>, PageDomain(1),
                    ExampleDetails(<<<<"1">>, <<"2">>, <<"3">>, <<"4">>>>), 0),
            PageDomain(1), ExampleDetails(<<<<"1">>>>), 0)

ExampleCalls ==
    {ExampleDetails(<<<<"1">>>>),
     ExampleDetails(<<<<"5">>>>),
     ExampleDetails(<<<<"6">>>>),
     ExampleDetails(<<<<"1">>, <<"2">>, <<"3">>, <<"4">>, <<"5">>, <<"6">>, <<"6">>>>)}

InitExamples ==
    /\ capturedData = << >>
    /\ expiredTokens = << >>
    /\ history = << >>
    /\ apiTracker \in {<< >>, ExamplesTracker}
    /\ config = Null
    /\ clock = 0
    /\ handlers = << >>
    /\ customHandlers = << >>
    /\ isEnabled = TRUE
    /\ proc = [p \in Procs |-> P0]
    /\ sent = << >>
    /\ notified = << >>
    /\ apiQueue = << >>
    /\ initializing = 0
    /\ pre = [p \in Procs |-> EmptyStore]
    /\ batch = [base |-> EmptyStore, updates |-> [p \in Procs |-> << >>]]
    /\ calls = 0
    /\ faults = 0

NextExamples ==
    \/ \E d \in ExampleCalls : TrackApiRequest(1, PageDomain(1), d)
    \/ GetApiTracker(1)
    \/ SetApiTracker(1)

SpecExamples == InitExamples /\ [][NextExamples]_vars

-----------------------------------------------------------------------------
(* SpecBuckets: trackApiRequest and clearApiTracker called by one caller,    *)
(* each call awaited before the next                                         *)

BucketMessages ==
    {[type |-> "CLEAR_API_TRACKER"],
     [type |-> "CLEAR_API_TRACKER", domain |-> PageDomain(1)],
     [type |-> "CLEAR_API_TRACKER", domain |-> PageDomain(3)]}

InitBuckets ==
    /\ capturedData = << >>
    /\ expiredTokens = << >>
    /\ history = << >>
    /\ apiTracker \in {<< >>, FullEndpoints(MAX_ENDPOINTS_PER_DOMAIN - 1),
                        FullEndpoints(MAX_ENDPOINTS_PER_DOMAIN)}
    /\ config = Null
    /\ clock = 0
    /\ handlers = << >>
    /\ customHandlers = << >>
    /\ isEnabled = TRUE
    /\ proc = [p \in Procs |-> P0]
    /\ sent = << >>
    /\ notified = << >>
    /\ apiQueue = << >>
    /\ initializing = 0
    /\ pre = [p \in Procs |-> EmptyStore]
    /\ batch = [base |-> EmptyStore, updates |-> [p \in Procs |-> << >>]]
    /\ calls = 0
    /\ faults = 0

NextBuckets ==
    \/ \E d \in EndpointCalls, n \in 1..2 : TrackApiRequest(1, PageDomain(n), d)
    \/ \E message \in BucketMessages : HandleMessage(1, message)
    \/ GetApiTracker(1)
    \/ SetApiTracker(1)
    \/ ClearTrackerGet(1)
    \/ ClearTrackerSet(1)

SpecBuckets == InitBuckets /\ [][NextBuckets]_vars

-----------------------------------------------------------------------------
(* SpecOverlap: trackApiRequest called for one page domain while another     *)
(* call is in flight, from an empty tracker                                  *)

OverlapCalls == {EndpointDetails(1), TrackDetails(str_a_io, str_n, << >>)}

InitOverlap ==
    /\ capturedData = << >>
    /\ expiredTokens = << >>
    /\ history = << >>
    /\ apiTracker \in {<< >>}
    /\ config = Null
    /\ clock = 0
    /\ handlers = << >>
    /\ customHandlers = << >>
    /\ isEnabled = TRUE
    /\ proc = [p \in Procs |-> P0]
    /\ sent = << >>
    /\ notified = << >>
    /\ apiQueue = << >>
    /\ initializing = 0
    /\ pre = [p \in Procs |-> EmptyStore]
    /\ batch = [base |-> EmptyStore, updates |-> [p \in Procs |-> << >>]]
    /\ calls = 0
    /\ faults = 0

NextOverlap ==
    \/ \E p \in Procs, d \in OverlapCalls : TrackApiRequest(p, PageDomain(1), d)
    \/ \E p \in Procs : GetApiTracker(p)
    \/ \E p \in Procs : SetApiTracker(p)

SpecOverlap == InitOverlap /\ [][NextOverlap]_vars

-----------------------------------------------------------------------------
(* SpecAuthOverlap: trackApiRequest called for one endpoint with and without *)
(* auth headers, also while another call is in flight                        *)

\* The request to endpoint 1 of a.io with the given headers
AuthDetails(requestHeaders) ==
    [EndpointDetails(1) EXCEPT !.requestHeaders = requestHeaders]

AuthCalls ==
    {AuthDetails(<< >>),
     AuthDetails(<<Header(str_Authorization, str_Bearer_abc123)>>),
     AuthDetails(<<Header(str_X_API_Key, str_abc123)>>)}

InitAuthOverlap ==
    /\ capturedData = << >>
    /\ expiredTokens = << >>
    /\ history = << >>
    /\ apiTracker \in {<< >>, FullEndpoints(1)}
    /\ config = Null
    /\ clock = 0
    /\ handlers = << >>
    /\ customHandlers = << >>
    /\ isEnabled = TRUE
    /\ proc = [p \in Procs |-> P0]
    /\ sent = << >>
    /\ notified = << >>
    /\ apiQueue = << >>
    /\ initializing = 0
    /\ pre = [p \in Procs |-> EmptyStore]
    /\ batch = [base |-> EmptyStore, updates |-> [p \in Procs |-> << >>]]
    /\ calls = 0
    /\ faults = 0

NextAuthOverlap ==
    \/ \E p \in Procs, d \in AuthCalls : TrackApiRequest(p, PageDomain(1), d)
    \/ \E p \in Procs : GetApiTracker(p)
    \/ \E p \in Procs : SetApiTracker(p)

SpecAuthOverlap == InitAuthOverlap /\ [][NextAuthOverlap]_vars

-----------------------------------------------------------------------------
(* SpecFilter: the service worker under a stored config with a blocklist or  *)
(* an allowlist, on the store an earlier run left, handling XHRs one at a    *)
(* time while the API monitoring of earlier ones runs                        *)

str_chrome == <<"c", "h", "r", "o", "m", "e">>
str_newtab == <<"n", "e", "w", "t", "a", "b">>

\* An XHR of tab 2 with an Authorization header
XhrTo(hostname) ==
    [Request(hostname, str_root, << >>,
             <<Header(str_Authorization, str_Bearer_abc123)>>)
        EXCEPT !.type = "xmlhttprequest"]

\* A request of an earlier run to that host, with the token the host had then
ReqXyzTo(hostname) ==
    Request(hostname, str_root, << >>,
            <<Header(str_Authorization, str_Bearer_xyz789)>>)

\* An XHR whose URL does not parse
XhrInvalid ==
    [XhrTo(<< >>) EXCEPT !.url = BadDetails.url]

FilterRequests == {XhrTo(str_x_a_io), XhrTo(str_b_io), XhrInvalid}

FilterStoredConfigs ==
    {[getDefaultConfig EXCEPT !.domainBlocklist = <<str_star_a_io>>],
     [getDefaultConfig EXCEPT !.domainAllowlist = <<str_b_io>>]}

\* What chrome.tabs.get gives: no tab, the page of the request, a browser page
Tabs ==
    {Null,
     [url |-> XhrTo(str_x_a_io).url],
     [url |-> [XhrTo(str_newtab).url EXCEPT !.scheme = str_chrome]]}

InitFilter ==
    /\ \E s \in {StoreOfCall(c) : c \in CallsOf(ReqXyzTo(str_b_io))} :
          /\ capturedData = s.capturedData
          /\ expiredTokens = s.expiredTokens
          /\ history = s.history
    /\ apiTracker = << >>
    /\ config \in FilterStoredConfigs
    /\ clock = 0
    /\ handlers = << >>
    /\ customHandlers = << >>
    /\ isEnabled = TRUE
    /\ proc = [p \in Procs |-> P0]
    /\ sent = << >>
    /\ notified = << >>
    /\ apiQueue = << >>
    /\ initializing = 1
    /\ pre = [p \in Procs |-> EmptyStore]
    /\ batch = [base |-> EmptyStore, updates |-> [p \in Procs |-> << >>]]
    /\ calls = 0
    /\ faults = 0

NextFilter ==
    \/ InitializeDone
    \/ \E d \in FilterRequests : HandleRequest(1, d)
    \/ Step(1)
    \/ \E tab \in Tabs : TabsGet(2, tab)
    \/ GetApiTracker(2)
    \/ SetApiTracker(2)

SpecFilter == InitFilter /\ [][NextFilter]_vars

-----------------------------------------------------------------------------
(* SpecGate: the service worker handling requests of every kind and tab id,  *)
(* one at a time, while the API monitoring of earlier ones runs with tabs of *)
(* every sort                                                                *)

\* The URL of a page of the given scheme and hostname
PageUrl(scheme, hostname) ==
    [XhrTo(hostname).url EXCEPT !.scheme = scheme]

GateRequests ==
    {XhrTo(str_b_io),
     [XhrTo(str_b_io) EXCEPT !.tabId = 0],
     XhrTo(str_x_a_io),
     ReqXyzTo(str_b_io)}

\* What chrome.tabs.get gives: no tab, a tab without a URL, a page, browser
\* and extension pages, a page without a hostname
GateTabs ==
    {Null,
     [id |-> 2],
     [url |-> PageUrl(str_https, str_x_a_io)],
     [url |-> PageUrl(str_chrome, str_newtab)],
     [url |-> PageUrl(<<"c", "h", "r", "o", "m", "e", "-", "e", "x", "t", "e", "n", "s", "i", "o", "n">>, str_abc123)],
     [url |-> PageUrl(<<"a", "b", "o", "u", "t">>, str_newtab)],
     [url |-> PageUrl(<<"e", "d", "g", "e">>, str_newtab)],
     [url |-> PageUrl(<<"f", "i", "l", "e">>, << >>)]}

InitGate ==
    /\ capturedData = << >>
    /\ expiredTokens = << >>
    /\ history = << >>
    /\ apiTracker = << >>
    /\ config = [getDefaultConfig EXCEPT !.domainBlocklist = <<str_star_a_io>>]
    /\ clock = 0
    /\ handlers = BuiltinHandlers(<< >>)
    /\ customHandlers = << >>
    /\ isEnabled = TRUE
    /\ proc = [p \in Procs |-> P0]
    /\ sent = << >>
    /\ notified = << >>
    /\ apiQueue = << >>
    /\ initializing = 0
    /\ pre = [p \in Procs |-> EmptyStore]
    /\ batch = [base |-> EmptyStore, updates |-> [p \in Procs |-> << >>]]
    /\ calls = 0
    /\ faults = 0

NextGate ==
    \/ \E d \in GateRequests : HandleRequest(1, d)
    \/ Step(1)
    \/ \E tab \in GateTabs : TabsGet(2, tab)
    \/ GetApiTracker(2)
    \/ SetApiTracker(2)

SpecGate == InitGate /\ [][NextGate]_vars

-----------------------------------------------------------------------------
(* SpecPause: the service worker handling requests while TOGGLE_ENABLED      *)
(* messages arrive                                                           *)

PauseRequests == {ReqAbc, ReqXyz}

PauseMessages ==
    {[type |-> "TOGGLE_ENABLED", enabled |-> FALSE],
     [type |-> "TOGGLE_ENABLED", enabled |-> TRUE]}

InitPause ==
    /\ \E s \in {EmptyStore, StoreAfter(ReqAbc)} :
          /\ capturedData = s.capturedData
          /\ expiredTokens = s.expiredTokens
          /\ history = s.history
    /\ apiTracker = << >>
    /\ config = Null
    /\ clock = 0
    /\ handlers = BuiltinHandlers(<< >>)
    /\ customHandlers = << >>
    /\ isEnabled = TRUE
    /\ proc = [p \in Procs |-> P0]
    /\ sent = << >>
    /\ notified = << >>
    /\ apiQueue = << >>
    /\ initializing = 0
    /\ pre = [p \in Procs |-> EmptyStore]
    /\ batch = [base |-> EmptyStore, updates |-> [p \in Procs |-> << >>]]
    /\ calls = 0
    /\ faults = 0

NextPause ==
    \/ \E d \in PauseRequests : HandleRequest(1, d)
    \/ Step(1)
    \/ \E message \in PauseMessages : HandleMessage(2, message)
    \/ MessageGetConfig(2)
    \/ SetConfig(2)
    \/ AfterSetConfig(2)
    \/ InitializeDone

SpecPause == InitPause /\ [][NextPause]_vars

-----------------------------------------------------------------------------
(* SpecCustom: the service worker with two custom rules, handling requests   *)
(* one at a time                                                             *)

\* A rule that reads the Authorization header
RuleHeader == [extractFrom |-> "header", extractKey |-> str_Authorization]

CustomRules == <<RuleQuery, RuleHeader>>

InitCustom ==
    /\ capturedData = << >>
    /\ expiredTokens = << >>
    /\ history = << >>
    /\ apiTracker = << >>
    /\ config = [getDefaultConfig EXCEPT !.rules = CustomRules]
    /\ clock = 0
    /\ handlers = BuiltinHandlers(<< >>)
    /\ customHandlers = createCustomHandlers(CustomRules)
    /\ isEnabled = TRUE
    /\ proc = [p \in Procs |-> P0]
    /\ sent = << >>
    /\ notified = << >>
    /\ apiQueue = << >>
    /\ initializing = 0
    /\ pre = [p \in Procs |-> EmptyStore]
    /\ batch = [base |-> EmptyStore, updates |-> [p \in Procs |-> << >>]]
    /\ calls = 0
    /\ faults = 0

NextCustom ==
    \/ \E d \in {ReqTwo} : HandleRequest(1, d)
    \/ Step(1)

SpecCustom == InitCustom /\ [][NextCustom]_vars

-----------------------------------------------------------------------------
(* SpecToggle: TOGGLE_ENABLED and SET_CONFIG messages handled while others   *)
(* and the initialize() calls they start are in flight                       *)

ToggleMessages ==
    {[type |-> "TOGGLE_ENABLED", enabled |-> FALSE],
     [type |-> "TOGGLE_ENABLED", enabled |-> TRUE],
     [type |-> "SET_CONFIG", config |-> [getDefaultConfig EXCEPT !.enabled = FALSE]],
     [type |-> "SET_CONFIG", config |-> getDefaultConfig]}

InitToggle ==
    /\ capturedData = << >>
    /\ expiredTokens = << >>
    /\ history = << >>
    /\ apiTracker = << >>
    /\ config \in {Null, [getDefaultConfig EXCEPT !.enabled = FALSE]}
    /\ clock = 0
    /\ handlers = BuiltinHandlers(<< >>)
    /\ customHandlers = << >>
    /\ isEnabled = getConfig(config).enabled
    /\ proc = [p \in Procs |-> P0]
    /\ sent = << >>
    /\ notified = << >>
    /\ apiQueue = << >>
    /\ initializing = 0
    /\ pre = [p \in Procs |-> EmptyStore]
    /\ batch = [base |-> EmptyStore, updates |-> [p \in Procs |-> << >>]]
    /\ calls = 0
    /\ faults = 0

NextToggle ==
    \/ \E p \in Procs, message \in ToggleMessages : HandleMessage(p, message)
    \/ \E p \in Procs : MessageGetConfig(p)
    \/ \E p \in Procs : SetConfig(p)
    \/ \E p \in Procs : AfterSetConfig(p)
    \/ InitializeDone

SpecToggle == InitToggle /\ [][NextToggle]_vars

-----------------------------------------------------------------------------
(* SpecMessages: handleMessage called with messages of every type, each call *)
(* awaited before the next, on a store that holds a capture, an expired      *)
(* token and two tracked page domains                                        *)

str_rule == <<"r", "u", "l", "e">>

\* The key and the entry of the capture the store holds
KeyAbc == generateKey(processRequest(BuiltinHandlers(<< >>), << >>, ReqAbc)[1])

\* A custom rule with a name
RuleNamed == Spread(RuleQuery, [name |-> str_rule])

\* Messages of the types of the switch, and of no type of it
Messages ==
    {[type |-> t] : t \in {"GET_CAPTURED_DATA", "GET_HISTORY", "GET_CONFIG",
                           "GET_EXPIRED_TOKENS", "GET_API_TRACKER",
                           "GET_TRACKED_DOMAINS", "GET_CAPABILITIES",
                           "CLEAR_HISTORY", "CLEAR_ALL", "CLEAR_EXPIRED_TOKENS",
                           "CLEAR_API_TRACKER", "UNKNOWN", "get_config"}}
    \cup {[type |-> "GET_API_TRACKER_FOR_DOMAIN", domain |-> PageDomain(1)],
          [type |-> "CLEAR_API_TRACKER", domain |-> PageDomain(1)],
          [type |-> "REMOVE_ITEM", key |-> KeyAbc],
          [type |-> "SET_CONFIG", config |-> [enabled |-> FALSE]],
          [type |-> "TOGGLE_ENABLED", enabled |-> FALSE],
          [type |-> "TOGGLE_ENABLED", enabled |-> TRUE],
          [type |-> "ADD_CUSTOM_RULE", rule |-> RuleNamed],
          [type |-> "REMOVE_CUSTOM_RULE", name |-> str_rule],
          [type |-> "toggle_enabled", enabled |-> FALSE],
          [key |-> KeyAbc]}

InitMessages ==
    /\ capturedData = StoreAfter(ReqAbc).capturedData
    /\ expiredTokens = <<ExpiredEntry(KeyAbc, StoreAfter(ReqXyz).capturedData[KeyAbc], 0)>>
    /\ history = StoreAfter(ReqAbc).history
    /\ apiTracker = FullPages(2)
    /\ config \in {Null, [getDefaultConfig EXCEPT !.rules = <<RuleNamed>>]}
    /\ clock = 0
    /\ handlers = BuiltinHandlers(<< >>)
    /\ customHandlers = createCustomHandlers(RulesOf(getConfig(config)))
    /\ isEnabled = TRUE
    /\ proc = [p \in Procs |-> P0]
    /\ sent = << >>
    /\ notified = << >>
    /\ apiQueue = << >>
    /\ initializing = 0
    /\ pre = [p \in Procs |-> EmptyStore]
    /\ batch = [base |-> EmptyStore, updates |-> [p \in Procs |-> << >>]]
    /\ calls = 0
    /\ faults = 0

NextMessages ==
    \/ \E message \in Messages : HandleMessage(1, message)
    \/ MessageStep(1)
    \/ InitializeDone

SpecMessages == InitMessages /\ [][NextMessages]_vars

-----------------------------------------------------------------------------
(* SpecRules: ADD_CUSTOM_RULE and REMOVE_CUSTOM_RULE messages handled one at *)
(* a time, beside the initialize() calls the config writes start             *)

RuleMessages ==
    {[type |-> "ADD_CUSTOM_RULE", rule |-> RuleElsewhere],
     [type |-> "ADD_CUSTOM_RULE", rule |-> RuleNamed],
     [type |-> "REMOVE_CUSTOM_RULE", name |-> str_rule],
     [type |-> "REMOVE_CUSTOM_RULE", name |-> str_nomatch]}

InitRules ==
    /\ capturedData = << >>
    /\ expiredTokens = << >>
    /\ history = << >>
    /\ apiTracker = << >>
    /\ config \in {Null, [getDefaultConfig EXCEPT !.rules = <<RuleNamed>>]}
    /\ clock = 0
    /\ handlers = BuiltinHandlers(<< >>)
    /\ customHandlers = createCustomHandlers(RulesOf(getConfig(config)))
    /\ isEnabled = TRUE
    /\ proc = [p \in Procs |-> P0]
    /\ sent = << >>
    /\ notified = << >>
    /\ apiQueue = << >>
    /\ initializing = 0
    /\ pre = [p \in Procs |-> EmptyStore]
    /\ batch = [base |-> EmptyStore, updates |-> [p \in Procs |-> << >>]]
    /\ calls = 0
    /\ faults = 0

NextRules ==
    \/ \E message \in RuleMessages : HandleMessage(1, message)
    \/ MessageGetConfig(1)
    \/ SetConfig(1)
    \/ AfterSetConfig(1)
    \/ InitializeDone

SpecRules == InitRules /\ [][NextRules]_vars

-----------------------------------------------------------------------------
(* SpecStartup: the service worker from the load of its module: the request  *)
(* listener is registered while the first initialize() is still in flight    *)

StartupRequests == {ReqAbc, ReqXyz}

InitStartup ==
    /\ capturedData = << >>
    /\ expiredTokens = << >>
    /\ history = << >>
    /\ apiTracker = << >>
    /\ config \in {Null, getDefaultConfig}
    /\ clock = 0
    /\ handlers = << >>
    /\ customHandlers = << >>
    /\ isEnabled = TRUE
    /\ proc = [p \in Procs |-> P0]
    /\ sent = << >>
    /\ notified = << >>
    /\ apiQueue = << >>
    /\ initializing = 1
    /\ pre = [p \in Procs |-> EmptyStore]
    /\ batch = [base |-> EmptyStore, updates |-> [p \in Procs |-> << >>]]
    /\ calls = 0
    /\ faults = 0

NextStartup ==
    \/ InitializeDone
    \/ \E d \in StartupRequests : HandleRequest(1, d)
    \/ Step(1)

SpecStartup == InitStartup /\ [][NextStartup]_vars

-----------------------------------------------------------------------------
(* SpecLifecycle: updateCapturedItem, trackApiRequest and the messages that  *)
(* clear, remove and configure, called while another call may be in flight,  *)
(* on a store that holds one capture                                         *)

\* The keys and records of a rotation of the stored capture and of a request
\* that yields two other keys
LifecycleCalls == CallsOf(ReqXyz) \cup CallsOf(ReqTwo)

\* A key with no entry
KeyQuery == generateKey(processRequest(BuiltinHandlers(<< >>), << >>, ReqTwo)[2])

LifecycleMessages ==
    {[type |-> "CLEAR_HISTORY"],
     [type |-> "CLEAR_EXPIRED_TOKENS"],
     [type |-> "CLEAR_ALL"],
     [type |-> "REMOVE_ITEM", key |-> KeyQuery],
     [type |-> "SET_CONFIG", config |-> [enabled |-> FALSE]]}

InitLifecycle ==
    /\ capturedData = StoreAfter(ReqAbc).capturedData
    /\ expiredTokens = << >>
    /\ history = StoreAfter(ReqAbc).history
    /\ apiTracker = << >>
    /\ config = Null
    /\ clock = 0
    /\ handlers = BuiltinHandlers(<< >>)
    /\ customHandlers = << >>
    /\ isEnabled = TRUE
    /\ proc = [p \in Procs |-> P0]
    /\ sent = << >>
    /\ notified = << >>
    /\ apiQueue = << >>
    /\ initializing = 0
    /\ pre = [p \in Procs |-> EmptyStore]
    /\ batch = [base |-> EmptyStore, updates |-> [p \in Procs |-> << >>]]
    /\ calls = 0
    /\ faults = 0

NextLifecycle ==
    \/ \E p \in Procs, c \in LifecycleCalls : CallUpdateCapturedItem(p, c[1], c[2])
    \/ \E p \in Procs, message \in LifecycleMessages : HandleMessage(p, message)
    \/ \E p \in Procs : TrackApiRequest(p, PageDomain(1), EndpointDetails(1))
    \/ \E p \in Procs :
          \/ GetCapturedData(p)
          \/ GetExpiredTokens(p)
          \/ SetExpiredTokens(p)
          \/ SetCapturedData(p)
          \/ GetHistory(p)
          \/ SetHistory(p)
          \/ GetApiTracker(p)
          \/ SetApiTracker(p)
          \/ ClearHistory(p)
          \/ ClearExpiredTokens(p)
          \/ ClearAllCapturedData(p)
          \/ RemoveGet(p)
          \/ RemoveSet(p)
          \/ MessageGet(p)
          \/ SetConfig(p)
          \/ AfterSetConfig(p)
    \/ InitializeDone

SpecLifecycle == InitLifecycle /\ [][NextLifecycle]_vars

-----------------------------------------------------------------------------
(* SpecRotation: updateCapturedItem, removeCapturedItem and                  *)
(* clearAllCapturedData called by one caller, each call awaited before the   *)
(* next                                                                      *)

\* The store after abc123 was captured and xyz789 then rotated it, at time 0
RotatedStore ==
    LET s == StoreAfter(ReqAbc)
        r == processRequest(BuiltinHandlers(<< >>), << >>, ReqXyz)[1]
    IN  [capturedData |->
            ObjPut(<< >>, KeyAbc, RotatedEntry(r, s.capturedData[KeyAbc], 0)),
         expiredTokens |-> <<ExpiredEntry(KeyAbc, s.capturedData[KeyAbc], 0)>>,
         history |-> <<HistoryEntry(KeyAbc, r, 0, TRUE)>> \o s.history]

RotationMessages ==
    {[type |-> "REMOVE_ITEM", key |-> KeyAbc],
     [type |-> "REMOVE_ITEM", key |-> KeyQuery],
     [type |-> "CLEAR_ALL"]}

InitRotation ==
    /\ \E s \in {EmptyStore, StoreAfter(ReqAbc), RotatedStore} :
          /\ capturedData = s.capturedData
          /\ expiredTokens = s.expiredTokens
          /\ history = s.history
    /\ apiTracker = << >>
    /\ config = Null
    /\ clock = 0
    /\ handlers = BuiltinHandlers(<< >>)
    /\ customHandlers = << >>
    /\ isEnabled = TRUE
    /\ proc = [p \in Procs |-> P0]
    /\ sent = << >>
    /\ notified = << >>
    /\ apiQueue = << >>
    /\ initializing = 0
    /\ pre = [p \in Procs |-> EmptyStore]
    /\ batch = [base |-> EmptyStore, updates |-> [p \in Procs |-> << >>]]
    /\ calls = 0
    /\ faults = 0

NextRotation ==
    \/ \E c \in SampleCalls : CallUpdateCapturedItem(1, c[1], c[2])
    \/ \E message \in RotationMessages : HandleMessage(1, message)
    \/ GetCapturedData(1)
    \/ GetExpiredTokens(1)
    \/ SetExpiredTokens(1)
    \/ SetCapturedData(1)
    \/ GetHistory(1)
    \/ SetHistory(1)
    \/ RemoveGet(1)
    \/ RemoveSet(1)
    \/ MessageGet(1)
    \/ ClearAllCapturedData(1)

SpecRotation == InitRotation /\ [][NextRotation]_vars

-----------------------------------------------------------------------------
(* SpecCount: updateCapturedItem called by one caller, each call awaited     *)
(* before the next, on stores that updates alone have built                  *)

InitCount ==
    /\ \E s \in {EmptyStore, StoreAfter(ReqAbc), RotatedStore} :
          /\ capturedData = s.capturedData
          /\ expiredTokens = s.expiredTokens
          /\ history = s.history
    /\ apiTracker = << >>
    /\ config = Null
    /\ clock = 0
    /\ handlers = BuiltinHandlers(<< >>)
    /\ customHandlers = << >>
    /\ isEnabled = TRUE
    /\ proc = [p \in Procs |-> P0]
    /\ sent = << >>
    /\ notified = << >>
    /\ apiQueue = << >>
    /\ initializing = 0
    /\ pre = [p \in Procs |-> EmptyStore]
    /\ batch = [base |-> EmptyStore, updates |-> [p \in Procs |-> << >>]]
    /\ calls = 0
    /\ faults = 0

NextCount ==
    \/ \E c \in SampleCalls : CallUpdateCapturedItem(1, c[1], c[2])
    \/ GetCapturedData(1)
    \/ GetExpiredTokens(1)
    \/ SetExpiredTokens(1)
    \/ SetCapturedData(1)
    \/ GetHistory(1)
    \/ SetHistory(1)

SpecCount == InitCount /\ [][NextCount]_vars

-----------------------------------------------------------------------------
(* Properties of updateCapturedItem called alone (SpecStorage)               *)

Min(a, b) == IF a < b THEN a ELSE b

\* Process p has returned from updateCapturedItem(key, value)
UpdateReturned(p) ==
    /\ proc[p].pc = "done"
    /\ proc[p].op = "updateCapturedItem"
    /\ proc[p].outcome = "returned"

\* existingItem.rotationCount || 0
CountOf(entry) == IF "rotationCount" \in DOMAIN entry THEN entry.rotationCount ELSE 0

\* list is `before` with one entry for key and value put at its head, cut to max
Prepended(list, before, key, value, max) ==
    /\ Len(list) = Min(Len(before) + 1, max)
    /\ list[1].key = key
    /\ list[1].value = value
    /\ Tail(list) = SubSeq(before, 1, Len(list) - 1)

\* C1: when updateCapturedItem(K, E) has run alone on a store whose entry for
\* K held another value, it has reported rotationDetected = true, the entry of
\* K holds E.value with the rotation count of the replaced entry plus one, and
\* the expired list is the one before the call with exactly one entry for K,
\* carrying the replaced value, put at its head.
C1_RotationDetected ==
    \A p \in Procs :
        (/\ UpdateReturned(p)
         /\ proc[p].key \in DOMAIN pre[p].capturedData
         /\ pre[p].capturedData[proc[p].key].value # proc[p].value.value)
        =>
        /\ proc[p].ret.rotationDetected = TRUE
        /\ proc[p].key \in DOMAIN capturedData
        /\ capturedData[proc[p].key].value = proc[p].value.value
        /\ capturedData[proc[p].key].rotationCount =
              CountOf(pre[p].capturedData[proc[p].key]) + 1
        /\ Prepended(expiredTokens, pre[p].expiredTokens, proc[p].key,
                     pre[p].capturedData[proc[p].key].value, MAX_EXPIRED_TOKENS)

\* abc123 was stored first with no rotation and nothing expired; the update
\* with xyz789 has returned: the count is 1 and abc123 is the one expired entry
C1_Witness ==
    /\ UpdateReturned(1)
    /\ proc[1].value.value = str_xyz789
    /\ proc[1].key \in DOMAIN pre[1].capturedData
    /\ pre[1].capturedData[proc[1].key].value = str_abc123
    /\ pre[1].capturedData[proc[1].key].rotationCount = 0
    /\ pre[1].expiredTokens = << >>
    /\ proc[1].ret.rotationDetected
    /\ capturedData[proc[1].key].rotationCount = 1
    /\ Len(expiredTokens) = 1
    /\ expiredTokens[1].value = str_abc123

\* C2: when updateCapturedItem(K, E) has run alone on a store whose entry for
\* K already held E.value, it has reported rotationDetected = false and a null
\* previousToken, lastSeenAt of the entry is the time the call read, every
\* other field of the entry, every other key's entry and the expired list are
\* as before the call.
C2_SameValueRefreshesLastSeen ==
    \A p \in Procs :
        (/\ UpdateReturned(p)
         /\ proc[p].key \in DOMAIN pre[p].capturedData
         /\ pre[p].capturedData[proc[p].key].value = proc[p].value.value)
        =>
        /\ proc[p].ret.rotationDetected = FALSE
        /\ IsNull(proc[p].ret.previousToken)
        /\ DOMAIN capturedData = DOMAIN pre[p].capturedData
        /\ DOMAIN capturedData[proc[p].key] =
              DOMAIN pre[p].capturedData[proc[p].key] \cup {"lastSeenAt"}
        /\ capturedData[proc[p].key].lastSeenAt = proc[p].now
        /\ \A f \in DOMAIN pre[p].capturedData[proc[p].key] \ {"lastSeenAt"} :
              capturedData[proc[p].key][f] = pre[p].capturedData[proc[p].key][f]
        /\ \A k \in DOMAIN capturedData \ {proc[p].key} :
              capturedData[k] = pre[p].capturedData[k]
        /\ expiredTokens = pre[p].expiredTokens

\* The same value was observed again at a later time than it was captured, in
\* a store holding an expired entry
C2_Witness ==
    /\ UpdateReturned(1)
    /\ proc[1].key \in DOMAIN pre[1].capturedData
    /\ pre[1].capturedData[proc[1].key].value = proc[1].value.value
    /\ capturedData[proc[1].key].lastSeenAt = 1
    /\ capturedData[proc[1].key].capturedAt = 0
    /\ Len(expiredTokens) > 0

\* C3: when updateCapturedItem(K, E) has run alone on a store without an
\* entry for K, the entry of K has value E.value, status active, rotation
\* count 0 and capturedAt the time the call read; the call has reported
\* rotationDetected = false and a null previousToken; the expired list is as
\* before the call.
C3_NewKeyCreatesEntry ==
    \A p \in Procs :
        (/\ UpdateReturned(p)
         /\ proc[p].key \notin DOMAIN pre[p].capturedData)
        =>
        /\ proc[p].key \in DOMAIN capturedData
        /\ capturedData[proc[p].key].value = proc[p].value.value
        /\ "status" \in DOMAIN capturedData[proc[p].key]
        /\ capturedData[proc[p].key].status = "active"
        /\ capturedData[proc[p].key].rotationCount = 0
        /\ capturedData[proc[p].key].capturedAt = proc[p].now
        /\ proc[p].ret.rotationDetected = FALSE
        /\ IsNull(proc[p].ret.previousToken)
        /\ expiredTokens = pre[p].expiredTokens

\* A key was added, at time 1, to a store that held another key
C3_Witness ==
    /\ UpdateReturned(1)
    /\ proc[1].key \notin DOMAIN pre[1].capturedData
    /\ pre[1].capturedData # << >>
    /\ capturedData[proc[1].key].capturedAt = 1
    /\ capturedData[proc[1].key].rotationCount = 0

\* The timestamps of a list do not grow from its head on
NewestFirst(list, field) ==
    \A i \in 1..(Len(list) - 1) : list[i][field] >= list[i + 1][field]

\* C7: with the calls of updateCapturedItem, addToHistory and
\* addToExpiredTokens made one after the other, history never holds more than
\* 100 entries and the expired list never more than 50, both have their
\* timestamps non-increasing from the head, and a call that has returned has
\* put its entry at the head and kept of the list before it the newest
\* entries the cap leaves room for: the oldest are the ones dropped.
C7_ListsCappedNewestFirst ==
    /\ Len(history) <= 100
    /\ Len(expiredTokens) <= 50
    /\ NewestFirst(history, "timestamp")
    /\ NewestFirst(expiredTokens, "expiredAt")
    /\ \A p \in Procs :
          (proc[p].pc = "done" /\ proc[p].outcome = "returned") =>
             /\ proc[p].op \in {"updateCapturedItem", "addToHistory"} =>
                   Prepended(history, pre[p].history, proc[p].key,
                             proc[p].value.value, 100)
             /\ (\/ proc[p].op = "addToExpiredTokens"
                 \/ (proc[p].op = "updateCapturedItem" /\ proc[p].ret.rotationDetected)) =>
                   /\ Len(expiredTokens) = Min(Len(pre[p].expiredTokens) + 1, 50)
                   /\ expiredTokens[1].key = proc[p].key
                   /\ Tail(expiredTokens) =
                         SubSeq(pre[p].expiredTokens, 1, Len(expiredTokens) - 1)
             /\ (\/ proc[p].op = "addToHistory"
                 \/ (proc[p].op = "updateCapturedItem" /\ ~proc[p].ret.rotationDetected)) =>
                   expiredTokens = pre[p].expiredTokens
             /\ proc[p].op = "addToExpiredTokens" => history = pre[p].history

\* A rotation has returned on a store whose two lists were full: both dropped
\* their oldest entry
C7_Witness ==
    /\ UpdateReturned(1)
    /\ proc[1].ret.rotationDetected
    /\ Len(pre[1].history) = 100
    /\ Len(pre[1].expiredTokens) = 50
    /\ Len(history) = 100
    /\ Len(expiredTokens) = 50
    /\ history[1].timestamp = 1
    /\ history[100].timestamp = 0

-----------------------------------------------------------------------------
(* Properties of requests handled while others are in flight (Spec)          *)

AllDone == \A p \in Procs : proc[p].pc = "done" /\ proc[p].outcome = "returned"

\* The keys of the updates one process made since the worker was last quiet
BatchKeys(p) == {batch.updates[p][i][1] : i \in 1..Len(batch.updates[p])}

\* What C4 compares of a store: each key's value and rotation count, and the
\* keys and values of the expired list
Compared(s) ==
    [entries |-> [k \in DOMAIN s.capturedData |->
                     [value |-> s.capturedData[k].value,
                      rotationCount |-> s.capturedData[k].rotationCount]],
     expired |-> [i \in 1..Len(s.expiredTokens) |->
                     [key |-> s.expiredTokens[i].key,
                      value |-> s.expiredTokens[i].value]]]

\* The store updateCapturedItem(key, value) leaves when it runs alone on s
AloneUpdate(s, key, value) ==
    IF IsRotation(s.capturedData, key, value)
    THEN [capturedData |-> ObjPut(s.capturedData, key,
                                  RotatedEntry(value, s.capturedData[key], 0)),
          expiredTokens |-> Truncate(<<ExpiredEntry(key, s.capturedData[key], 0)>>
                                         \o s.expiredTokens, MAX_EXPIRED_TOKENS),
          history |-> Truncate(<<HistoryEntry(key, value, 0, TRUE)>> \o s.history,
                               MAX_HISTORY_ITEMS)]
    ELSE [capturedData |-> ObjPut(s.capturedData, key,
                                  IF key \in DOMAIN s.capturedData
                                  THEN SameEntry(s.capturedData[key], 0)
                                  ELSE NewEntry(value, 0)),
          expiredTokens |-> s.expiredTokens,
          history |-> Truncate(<<HistoryEntry(key, value, 0, FALSE)>> \o s.history,
                               MAX_HISTORY_ITEMS)]

\* The updates of a list run one after the other
RECURSIVE AloneRun(_, _)
AloneRun(s, updates) ==
    IF Len(updates) = 0 THEN s
    ELSE AloneRun(AloneUpdate(s, Head(updates)[1], Head(updates)[2]), Tail(updates))

\* The orders in which the updates of two processes can run one after the
\* other, each process's own updates in its order
RECURSIVE Merges(_, _)
Merges(a, b) ==
    IF Len(a) = 0 THEN {b}
    ELSE IF Len(b) = 0 THEN {a}
    ELSE {<<Head(a)>> \o m : m \in Merges(Tail(a), b)}
         \cup {<<Head(b)>> \o m : m \in Merges(a, Tail(b))}

\* C4: when two requests handled at the same time have updated the same key
\* and both have returned, the entry of the key, its rotation count and the
\* expired list are those of the two updates run one after the other in one
\* of the two orders.
C4_SameKeyUpdatesAtomic ==
    (/\ AllDone
     /\ \A p \in Procs : Len(batch.updates[p]) > 0
     /\ Cardinality(UNION {BatchKeys(p) : p \in Procs}) = 1)
    => Compared(Store) \in
          {Compared(AloneRun(batch.base, m)) :
              m \in Merges(batch.updates[1], batch.updates[2])}

\* C5: when two requests handled at the same time have updated different keys
\* and both have returned, the map holds for every update the entry with the
\* value written, and history holds, among the entries added since, one for
\* every update.
C5_DifferentKeysIndependent ==
    (/\ AllDone
     /\ \A p \in Procs : Len(batch.updates[p]) > 0
     /\ BatchKeys(1) \cap BatchKeys(2) = {})
    => \A p \in Procs : \A i \in 1..Len(batch.updates[p]) :
          /\ batch.updates[p][i][1] \in DOMAIN capturedData
          /\ capturedData[batch.updates[p][i][1]].value = batch.updates[p][i][2].value
          /\ \E j \in 1..(Len(history) - Len(batch.base.history)) :
                /\ history[j].key = batch.updates[p][i][1]
                /\ history[j].value = batch.updates[p][i][2].value

\* C6: from one state of the store to the next a key that has an entry keeps
\* one, with a rotation count that is not smaller.
C6_RotationCountNeverDecreases ==
    [][\A k \in DOMAIN capturedData :
          /\ k \in DOMAIN capturedData'
          /\ capturedData'[k].rotationCount >= capturedData[k].rotationCount]_vars

\* C8: the record handleRequest is about to store has as key its domain, the
\* normalized pattern of the request URL's path, its type and, if it has one,
\* its header name, joined by '::'; and for GET
\* https://api.example.com/v1/users/123 with Authorization: Bearer abc123 the
\* dispatcher gave exactly one record, {auth-token, abc123, bearer,
\* Authorization}, with the key
\* api.example.com::/v1/users/*::auth-token::Authorization.
C8_KeyHoldsPathPattern ==
    \A p \in Procs :
        (proc[p].op = "handleRequest" /\ proc[p].pc = "u_getCapturedData")
        =>
        /\ proc[p].key =
              proc[p].value.source.domain \o str_sep
              \o normalizePathPattern(proc[p].details.url.pathname) \o str_sep
              \o proc[p].value.type
              \o (IF "headerName" \in DOMAIN proc[p].value
                  THEN str_sep \o proc[p].value.headerName ELSE << >>)
        /\ proc[p].details = ReqAbc =>
              /\ Len(proc[p].results) = 1
              /\ proc[p].value.type = str_auth_token
              /\ proc[p].value.value = str_abc123
              /\ proc[p].value.tokenType = "bearer"
              /\ proc[p].value.headerName = str_Authorization
              /\ proc[p].key = str_key_example

-----------------------------------------------------------------------------
(* Properties of a store whose calls may fail (SpecFault)                    *)

\* The storage calls of updateCapturedItem and of the functions it awaits
UpdatePcs ==
    {"u_getCapturedData", "x_getExpiredTokens", "x_setExpiredTokens",
     "u_setCapturedData", "h_getHistory", "h_setHistory"}

\* C9: when a storage call of updateCapturedItem has failed, the call has
\* ended with the failure and the map, the expired list and history are as
\* they were when updateCapturedItem was called.
C9_FailureLeavesStoreUntouched ==
    \A p \in Procs :
        (proc[p].pc = "done" /\ proc[p].failedAt \in UpdatePcs)
        =>
        /\ proc[p].outcome \in {"threw", "caught"}
        /\ Store = pre[p]

\* C10: when the update of one record of a request has failed, the records of
\* the request with other keys have been updated and their messages sent.
C10_FailureSparesOtherKeys ==
    \A p \in Procs :
        (/\ proc[p].pc = "done"
         /\ proc[p].op = "handleRequest"
         /\ proc[p].failedAt \in UpdatePcs)
        =>
        \A j \in 1..Len(proc[p].results) :
            generateKey(proc[p].results[j]) # proc[p].key =>
               /\ j \in proc[p].completed
               /\ \E m \in 1..Len(sent) :
                     sent[m].key = generateKey(proc[p].results[j])

-----------------------------------------------------------------------------
(* Properties of HandlerManager.processRequest (SpecDispatch)                *)

\* The units the last call of processRequest looped over, in order
Units == proc[1].units

\* processRequest has been called and has returned
Dispatched == proc[1].pc = "done" /\ proc[1].op = "processRequest"

\* What process returns for each of the units hs on request details
RECURSIVE ProcessEach(_, _)
ProcessEach(hs, details) ==
    IF Len(hs) = 0 THEN << >>
    ELSE <<process(Head(hs), details)>> \o ProcessEach(Tail(hs), details)

\* What process returns for each unit on the request of the last call
Outcomes == ProcessEach(Units, proc[1].details)

\* The units whose process returns a record
YieldingOf(outs) == {i \in 1..Len(outs) : ~IsThrow(outs[i]) /\ ~IsNull(outs[i])}

Yielding == YieldingOf(Outcomes)

\* The place of unit i among the units Y
Rank(Y, i) == Cardinality({k \in Y : k <= i})

\* results holds, in unit order, the records among outs
InOrder(outs, Y, results) ==
    /\ Len(results) = Cardinality(Y)
    /\ \A i \in Y : results[Rank(Y, i)] = outs[i]

\* The call returned, in unit order, the record of every unit that returns one
ReturnedInOrder ==
    /\ proc[1].outcome = "returned"
    /\ InOrder(Outcomes, Yielding, proc[1].results)

\* C11: a unit that throws in process, in matches or in extract, counts as no
\* result for that unit only: processRequest returns, and what it returns is,
\* in unit order, the record of every unit that returns one
C11_ThrowingUnitSkipped == Dispatched => ReturnedInOrder

\* A call where one unit threw in matches and another in extract, each before
\* a unit whose record was returned
C11_Witness ==
    /\ Dispatched
    /\ \E i \in 1..Len(Units), j \in Yielding :
          i < j /\ MatchThrows(Units[i], proc[1].details)
    /\ \E i \in 1..Len(Units), j \in Yielding :
          /\ i < j
          /\ IsThrow(Outcomes[i])
          /\ ~MatchThrows(Units[i], proc[1].details)

\* matches(details) is true for unit h
MatchesTrue(h, details) == ~MatchThrows(h, details) /\ Matches(h, details)

\* The record extract returns for unit h, Null if it returns none
Extracted(h, details, extracted) ==
    IF IsThrow(extracted) \/ IsNull(extracted) THEN Null ELSE Named(h, extracted)

\* The record unit h contributes: it is enabled, matches, and its extract
\* returns a record; Null if it contributes none
Contribution(h, details) ==
    IF h.enabled /\ MatchesTrue(h, details)
    THEN Extracted(h, details, Extract(h, details))
    ELSE Null

RECURSIVE ContributionEach(_, _)
ContributionEach(hs, details) ==
    IF Len(hs) = 0 THEN << >>
    ELSE <<Contribution(Head(hs), details)>> \o ContributionEach(Tail(hs), details)

\* The contributions of the units on the request of the last call
Contributions == ContributionEach(Units, proc[1].details)

\* results holds records among the contributions cs only, no more than there
\* are
OnlyOf(cs, results) ==
    /\ \A j \in 1..Len(results) :
          \E i \in 1..Len(cs) : ~IsNull(cs[i]) /\ results[j] = cs[i]
    /\ Len(results) <= Cardinality({i \in 1..Len(cs) : ~IsNull(cs[i])})

\* The result holds records of contributing units only, one a unit at most,
\* and none if no active unit matches
OnlyContributions ==
    /\ (\A i \in 1..Len(Units) :
           ~(Units[i].enabled /\ MatchesTrue(Units[i], proc[1].details)))
          => proc[1].results = << >>
    /\ OnlyOf(Contributions, proc[1].results)

\* C12: if no active unit matches the request the result is the empty list; a
\* record of the result is the record of a unit that is enabled, matches and
\* extracts one, and no unit gives more than one
C12_OnlyMatchingUnitsContribute == Dispatched => OnlyContributions

\* A call with a unit that contributed and a unit that did not match though
\* its extract returns a record
C12_Witness ==
    /\ Dispatched
    /\ \E i \in 1..Len(Units) :
          /\ ~MatchesTrue(Units[i], proc[1].details)
          /\ ~IsNull(Extracted(Units[i], proc[1].details,
                               Extract(Units[i], proc[1].details)))
    /\ \E i \in 1..Len(Contributions) : ~IsNull(Contributions[i])

-----------------------------------------------------------------------------
(* Properties of the domain filter (SpecDomain)                              *)

\* shouldCaptureDomain has been called and has returned
Filtered == proc[1].pc = "done" /\ proc[1].op = "shouldCaptureDomain"

\* The block and allow lists of a config, empty when omitted
BlockOf(cfg) == IF "domainBlocklist" \in DOMAIN cfg THEN cfg.domainBlocklist ELSE << >>
AllowOf(cfg) == IF "domainAllowlist" \in DOMAIN cfg THEN cfg.domainAllowlist ELSE << >>

\* Domain matches the pattern: it is the pattern, or the pattern is '*.' and a
\* suffix and the domain is that suffix or ends with a dot and that suffix
Covers(domain, pattern) ==
    /\ pattern # NullString
    /\ pattern # << >>
    /\ \/ domain = pattern
       \/ /\ Len(pattern) >= 2
          /\ pattern[1] = "*"
          /\ pattern[2] = "."
          /\ \/ domain = SubSeq(pattern, 3, Len(pattern))
             \/ \E k \in 1..Len(domain) :
                   /\ domain[k] = "."
                   /\ SubSeq(domain, k + 1, Len(domain)) = SubSeq(pattern, 3, Len(pattern))

CoveredBy(domain, list) == \E i \in 1..Len(list) : Covers(domain, list[i])

\* The reference predicate of the domain filter
ShouldCapture(domain, block, allow) ==
    IF domain = NullString \/ domain = << >> THEN FALSE
    ELSE IF CoveredBy(domain, block) THEN FALSE
    ELSE IF allow = << >> THEN TRUE
    ELSE CoveredBy(domain, allow)

\* C13: shouldCaptureDomain is the reference predicate: false for an empty or
\* null domain; else false if a block pattern matches, allow-listed or not;
\* else true if the allow-list is empty; else true iff an allow pattern matches
C13_FilterIsReferencePredicate ==
    Filtered =>
        proc[1].ret.value = ShouldCapture(proc[1].key, BlockOf(config), AllowOf(config))

\* A domain a wildcard of the block-list and a pattern of the allow-list match
\* has been rejected
C13_Witness ==
    /\ Filtered
    /\ ~proc[1].ret.value
    /\ str_star_a_io \in Range(BlockOf(config))
    /\ proc[1].key \notin Range(BlockOf(config))
    /\ CoveredBy(proc[1].key, BlockOf(config))
    /\ CoveredBy(proc[1].key, AllowOf(config))

-----------------------------------------------------------------------------
(* Properties of path normalization (SpecNormalize)                          *)

\* A normalizer has been called and has returned
Normalized ==
    proc[1].pc = "done" /\ proc[1].op \in {"normalizePathPattern", "normalizeApiPath"}

\* The segments of a path: what lies between its slashes
SegmentsOf(path) == split(path, "/")

\* Segment by segment, out is path with every UUID-shaped, all-digit and long
\* alphanumeric segment replaced by '*'
Wildcarded(path, out) ==
    /\ Len(SegmentsOf(out)) = Len(SegmentsOf(path))
    /\ \A i \in 1..Len(SegmentsOf(path)) :
          SegmentsOf(out)[i] = IF SegmentsOf(path)[i] \in IdSegments
                               THEN str_star ELSE SegmentsOf(path)[i]

\* C20: path normalization is idempotent, and it replaces each UUID-shaped,
\* all-digit or long alphanumeric segment by '*' and leaves every other
\* segment, and the number and order of the segments, as they are
C20_NormalizationIdempotent ==
    Normalized =>
        /\ Wildcarded(proc[1].key, proc[1].ret.value)
        /\ normalizePathPattern(proc[1].ret.value) = proc[1].ret.value
        /\ normalizeApiPath(proc[1].ret.value) = proc[1].ret.value
        /\ proc[1].idx = 2 => proc[1].ret.value = proc[1].key

\* A path with an all-digit segment after an ordinary one has been normalized,
\* and what came back has been normalized again
C20_Witness ==
    /\ Normalized
    /\ proc[1].idx = 2
    /\ Len(SegmentsOf(proc[1].key)) = 3
    /\ SegmentsOf(proc[1].key)[2] = seg_users
    /\ SegmentsOf(proc[1].key)[3] = str_star

-----------------------------------------------------------------------------
(* Properties of trackApiRequest called alone (SpecEndpoints)                *)

\* Process p has returned from a trackApiRequest that reached the store
TrackDone(p) ==
    /\ proc[p].pc = "done"
    /\ proc[p].op = "trackApiRequest"
    /\ proc[p].outcome = "returned"

\* The names of the properties of an object
Keys(obj) == {obj[i][1] : i \in 1..Len(obj)}

\* The endpoints of a page domain in a tracker, none when it has no bucket
EndpointsIn(tracker, pageDomain) ==
    IF ObjHas(tracker, pageDomain) THEN ObjGet(tracker, pageDomain).endpoints
    ELSE << >>

\* after is before with one entry of the least lastSeen gone and key in its
\* place; the entries that stay are as they were
EvictedOldest(before, after, key) ==
    /\ Len(after) = MAX_ENDPOINTS_PER_DOMAIN
    /\ key \in Keys(after)
    /\ \E victim \in Keys(before) :
          /\ Keys(after) = (Keys(before) \ {victim}) \cup {key}
          /\ \A k \in Keys(before) :
                ObjGet(before, victim).lastSeen <= ObjGet(before, k).lastSeen
          /\ \A k \in Keys(before) \ {victim} : ObjGet(after, k) = ObjGet(before, k)

\* C15: called one after the other, trackApiRequest never leaves a bucket
\* with more than 200 endpoints; a new endpoint key arriving at a bucket of
\* 200 evicts exactly one entry, one of the least lastSeen, and is inserted
C15_EndpointCapEvictsOldest ==
    /\ \A i \in 1..Len(apiTracker) :
          Len(apiTracker[i][2].endpoints) <= MAX_ENDPOINTS_PER_DOMAIN
    /\ (/\ TrackDone(1)
        /\ Len(EndpointsIn(proc[1].tracker, proc[1].pageDomain))
              = MAX_ENDPOINTS_PER_DOMAIN
        /\ proc[1].key \notin Keys(EndpointsIn(proc[1].tracker, proc[1].pageDomain)))
       => EvictedOldest(EndpointsIn(proc[1].tracker, proc[1].pageDomain),
                        EndpointsIn(apiTracker, proc[1].pageDomain),
                        proc[1].key)

\* A new endpoint key arrived at a bucket of 200 whose first entry had been
\* seen again: that entry stayed and one seen less recently went
C15_Witness ==
    /\ TrackDone(1)
    /\ Len(EndpointsIn(proc[1].tracker, proc[1].pageDomain))
          = MAX_ENDPOINTS_PER_DOMAIN
    /\ proc[1].key \notin Keys(EndpointsIn(proc[1].tracker, proc[1].pageDomain))
    /\ EndpointsIn(proc[1].tracker, proc[1].pageDomain)[1][2].count = 2
    /\ EndpointsIn(proc[1].tracker, proc[1].pageDomain)[1][1]
          \in Keys(EndpointsIn(apiTracker, proc[1].pageDomain))
    /\ Len(EndpointsIn(apiTracker, proc[1].pageDomain)) = MAX_ENDPOINTS_PER_DOMAIN

-----------------------------------------------------------------------------
(* Properties of the domain filter in handleRequest (SpecFilter)             *)

\* The URL of the request does not parse, or the reference predicate rejects
\* its hostname under the stored config
RejectedRequest(details) ==
    \/ ~details.url.valid
    \/ ~ShouldCapture(details.url.hostname, BlockOf(getConfig(config)),
                      AllowOf(getConfig(config)))

\* A step of handleRequest on process 1
RequestStep == proc'[1] # proc[1] /\ proc'[1].op = "handleRequest"

\* C14: the domain filter comes before all other work: a handleRequest whose
\* request is rejected, or whose URL does not parse, calls neither
\* processRequest nor the API monitoring, and changes no stored value
C14_FilterComesFirst ==
    [][(RequestStep /\ RejectedRequest(proc'[1].details)) =>
          /\ UNCHANGED <<capturedData, expiredTokens, history, apiTracker, apiQueue>>
          /\ ~proc'[1].dispatched
          /\ proc'[1].pc \in {"r_getConfig", "done"}
          /\ proc'[1].pc = "done" => proc'[1].outcome = "skipped"]_vars

\* An XHR with an Authorization header to a host the blocklist rejects by a
\* wildcard has been handled and skipped, after a request that was let
\* through had been stored and tracked
C14_Witness ==
    /\ proc[1].pc = "done"
    /\ proc[1].op = "handleRequest"
    /\ proc[1].outcome = "skipped"
    /\ proc[1].details.url.valid
    /\ proc[1].details.url.hostname = str_x_a_io
    /\ RejectedRequest(proc[1].details)
    /\ Len(expiredTokens) > 0
    /\ Len(apiTracker) > 0

\* stats.byApiDomain[apiDomain] of a page domain in a tracker, 0 when there is
\* none
ByApiDomain(tracker, pageDomain, apiDomain) ==
    IF ObjHas(tracker, pageDomain)
       /\ ObjHas(ObjGet(tracker, pageDomain).stats.byApiDomain, apiDomain)
    THEN ObjGet(ObjGet(tracker, pageDomain).stats.byApiDomain, apiDomain)
    ELSE 0

\* C19: stats.byApiDomain[d] is the number of tracked requests whose API
\* domain is d: every tracked request to d, one to an endpoint already
\* present too, raises it by one
C19_ApiDomainCountsRequests ==
    TrackDone(1) =>
        ByApiDomain(apiTracker, proc[1].pageDomain, proc[1].details.url.hostname)
          = ByApiDomain(proc[1].tracker, proc[1].pageDomain,
                        proc[1].details.url.hostname) + 1

-----------------------------------------------------------------------------
(* Properties of the page domain cap (SpecPages)                             *)

\* after is before with one bucket of the least lastVisited gone and the
\* bucket of pageDomain added; the buckets that stay are as they were
EvictedOldestPage(before, after, pageDomain) ==
    /\ Len(after) = MAX_TRACKED_DOMAINS
    /\ pageDomain \in Keys(after)
    /\ \E victim \in Keys(before) \ {pageDomain} :
          /\ Keys(after) = (Keys(before) \ {victim}) \cup {pageDomain}
          /\ \A k \in Keys(before) \ {pageDomain} :
                ObjGet(before, victim).lastVisited <= ObjGet(before, k).lastVisited
          /\ \A k \in Keys(before) \ {victim} : ObjGet(after, k) = ObjGet(before, k)

\* C16: called one after the other, trackApiRequest never leaves more than 50
\* buckets; a call that adds a 51st evicts exactly one bucket, one of the
\* oldest lastVisited among the others, never the bucket it touched
C16_PageCapEvictsOldest ==
    /\ Len(apiTracker) <= MAX_TRACKED_DOMAINS
    /\ (/\ TrackDone(1)
        /\ Len(proc[1].tracker) = MAX_TRACKED_DOMAINS
        /\ proc[1].pageDomain \notin Keys(proc[1].tracker))
       => EvictedOldestPage(proc[1].tracker, apiTracker, proc[1].pageDomain)

\* A new page domain arrived at a tracker of 50 whose first bucket had been
\* visited again: that bucket stayed and one visited less recently went
C16_Witness ==
    /\ TrackDone(1)
    /\ Len(proc[1].tracker) = MAX_TRACKED_DOMAINS
    /\ proc[1].pageDomain \notin Keys(proc[1].tracker)
    /\ proc[1].tracker[1][2].totalRequests = 2
    /\ proc[1].tracker[1][1] \in Keys(apiTracker)
    /\ Len(apiTracker) = MAX_TRACKED_DOMAINS

-----------------------------------------------------------------------------
(* Properties of the example lists (SpecExamples)                            *)

NoDuplicates(list) ==
    \A i, j \in 1..Len(list) : list[i] = list[j] => i = j

IsPrefix(a, b) == Len(a) <= Len(b) /\ SubSeq(b, 1, Len(a)) = a

\* The example lists of an endpoint entry are within their caps and hold no
\* value twice
ExamplesCapped(entry) ==
    /\ Len(entry.exampleUrls) <= MAX_EXAMPLE_URLS
    /\ NoDuplicates(entry.exampleUrls)
    /\ \A i \in 1..Len(entry.queryParamExamples) :
          /\ Len(entry.queryParamExamples[i][2]) <= MAX_PARAM_EXAMPLES
          /\ NoDuplicates(entry.queryParamExamples[i][2])

\* The example lists of entry before are kept, in place, in entry after
ExamplesKept(before, after) ==
    /\ IsPrefix(before.exampleUrls, after.exampleUrls)
    /\ \A i \in 1..Len(before.queryParamExamples) :
          IsPrefix(before.queryParamExamples[i][2],
                   ExamplesOf(after.queryParamExamples, before.queryParamExamples[i][1]))

\* C17: every example list of an endpoint entry holds at most 5 values, and
\* exampleUrls at most 3 URLs, none twice; a call appends to the lists it
\* finds and displaces nothing
C17_ExampleListsCapped ==
    /\ \A i \in 1..Len(apiTracker) :
          \A j \in 1..Len(apiTracker[i][2].endpoints) :
             ExamplesCapped(apiTracker[i][2].endpoints[j][2])
    /\ (/\ TrackDone(1)
        /\ proc[1].key \in Keys(EndpointsIn(proc[1].tracker, proc[1].pageDomain)))
       => ExamplesKept(
             ObjGet(EndpointsIn(proc[1].tracker, proc[1].pageDomain), proc[1].key),
             ObjGet(EndpointsIn(apiTracker, proc[1].pageDomain), proc[1].key))

\* A call brought a sixth value and a fourth URL to an entry whose lists were
\* at their caps
C17_FullBefore(entry, details) ==
    /\ Len(entry.exampleUrls) = MAX_EXAMPLE_URLS
    /\ Href(details.url) \notin Range(entry.exampleUrls)
    /\ Len(ExamplesOf(entry.queryParamExamples, str_k)) = MAX_PARAM_EXAMPLES
    /\ \E i \in 1..Len(details.url.search) :
          details.url.search[i][2] \notin Range(ExamplesOf(entry.queryParamExamples, str_k))

C17_Witness ==
    /\ TrackDone(1)
    /\ proc[1].key \in Keys(EndpointsIn(proc[1].tracker, proc[1].pageDomain))
    /\ C17_FullBefore(
          ObjGet(EndpointsIn(proc[1].tracker, proc[1].pageDomain), proc[1].key),
          proc[1].details)

-----------------------------------------------------------------------------
(* Properties of trackApiRequest calls in flight together (SpecOverlap)      *)

\* The sum of the counts of the endpoints
RECURSIVE SumOfCounts(_)
SumOfCounts(endpoints) ==
    IF Len(endpoints) = 0 THEN 0
    ELSE Head(endpoints)[2].count + SumOfCounts(Tail(endpoints))

\* The requests a tracker has counted for a page domain
TotalRequests(tracker, pageDomain) ==
    IF ObjHas(tracker, pageDomain) THEN ObjGet(tracker, pageDomain).totalRequests
    ELSE 0

\* C18: the updates of one bucket are atomic: when the calls for a page domain
\* have all returned, totalRequests is the number of calls and the counts of
\* the endpoints add up to it; no increment is lost
C18_NoIncrementLost ==
    (\A p \in Procs : Quiet(p)) =>
        /\ TotalRequests(apiTracker, PageDomain(1)) = calls
        /\ SumOfCounts(EndpointsIn(apiTracker, PageDomain(1))) = calls

-----------------------------------------------------------------------------
(* Properties of extractRootDomain (SpecRoot)                                *)

\* extractRootDomain has been called and has returned
RootExtracted == proc[1].pc = "done" /\ proc[1].op = "extractRootDomain"

\* The listed multi-part TLDs, as pairs of labels
MultiPartPairs ==
    {<<lbl_co, lbl_uk>>, <<lbl_co, <<"i", "d">>>>, <<lbl_co, <<"j", "p">>>>,
     <<lbl_com, <<"a", "u">>>>, <<lbl_com, <<"b", "r">>>>,
     <<<<"o", "r", "g">>, lbl_uk>>}

\* The last n labels, all of them when there are fewer
LastLabels(labels, n) ==
    IF Len(labels) <= n THEN labels
    ELSE SubSeq(labels, Len(labels) - n + 1, Len(labels))

\* Four labels of digits
IsQuadLabels(labels) ==
    /\ Len(labels) = 4
    /\ \A i \in 1..4 : Len(labels[i]) > 0 /\ Range(labels[i]) \subseteq Digits

\* The reference function, on the labels of the hostname
RefRootLabels(labels) ==
    IF labels = <<str_localhost>> \/ IsQuadLabels(labels) THEN labels
    ELSE IF Len(labels) >= 2 /\ LastLabels(labels, 2) \in MultiPartPairs
    THEN LastLabels(labels, 3)
    ELSE LastLabels(labels, 2)

\* C21: extractRootDomain(h) is the reference function of h: h for localhost
\* and dotted quads, the last three labels when the last two are a listed
\* multi-part TLD, the last two labels otherwise, empty for the empty hostname
C21_RootDomainIsReference ==
    RootExtracted =>
        proc[1].ret.value = join(RefRootLabels(proc[1].details.labels), ".")

\* app.example.co.uk has given example.co.uk
C21_Witness ==
    /\ RootExtracted
    /\ proc[1].details.labels = <<lbl_app, lbl_example, lbl_co, lbl_uk>>
    /\ proc[1].ret.value = join(<<lbl_example, lbl_co, lbl_uk>>, ".")

-----------------------------------------------------------------------------
(* Properties of handleMessage (SpecMessages)                                *)

\* The case labels of the switch of handleMessage
RecognizedTypes ==
    {"GET_CAPTURED_DATA", "GET_HISTORY", "CLEAR_HISTORY", "REMOVE_ITEM",
     "CLEAR_ALL", "GET_CONFIG", "SET_CONFIG", "TOGGLE_ENABLED",
     "GET_CAPABILITIES", "ADD_CUSTOM_RULE", "REMOVE_CUSTOM_RULE",
     "GET_EXPIRED_TOKENS", "CLEAR_EXPIRED_TOKENS", "GET_API_TRACKER",
     "GET_TRACKED_DOMAINS", "GET_API_TRACKER_FOR_DOMAIN", "CLEAR_API_TRACKER"}

\* The message is of none of the recognized types
Unrecognized(message) ==
    "type" \notin DOMAIN message \/ message.type \notin RecognizedTypes

\* A step of handleMessage on process 1: the call, or a resumption
MessageStepOf1 ==
    /\ proc'[1].op = "handleMessage"
    /\ calls' # calls \/ proc'[1].pc # proc[1].pc

\* C22: handleMessage answers a message of no recognized type with
\* {error: 'Unknown message type'}, without throwing, and changes no stored
\* value, nor the enabled flag, nor the handlers of the manager
C22_UnknownMessageAnswered ==
    [][(MessageStepOf1 /\ Unrecognized(proc'[1].message)) =>
          /\ proc'[1].pc = "done"
          /\ proc'[1].outcome = "returned"
          /\ proc'[1].ret = [error |-> "Unknown message type"]
          /\ UNCHANGED <<capturedData, expiredTokens, history, apiTracker,
                         config, isEnabled, handlers, customHandlers,
                         initializing>>]_vars

\* A message of type 'toggle_enabled' asking to pause has been answered, and
\* the worker, which has a stored config, is still enabled
C22_Witness ==
    /\ proc[1].pc = "done"
    /\ proc[1].op = "handleMessage"
    /\ proc[1].message = [type |-> "toggle_enabled", enabled |-> FALSE]
    /\ proc[1].ret = [error |-> "Unknown message type"]
    /\ isEnabled
    /\ ~IsNull(config)

-----------------------------------------------------------------------------
(* Properties of the lifecycle of a stored entry (SpecLifecycle)             *)

\* removeCapturedItem(key) or clearAllCapturedData has been invoked and has
\* not returned
Removing(key) ==
    \E p \in Procs :
       /\ proc[p].op = "handleMessage"
       /\ proc[p].pc # "done"
       /\ \/ TypeOf(proc[p].message) = "CLEAR_ALL"
          \/ TypeOf(proc[p].message) = "REMOVE_ITEM" /\ proc[p].message.key = key

\* C23: a stored entry is removed only by removeCapturedItem of its key or by
\* clearAllCapturedData: whatever else is called, a key that has an entry
\* keeps one
C23_EntryStaysUntilRemoved ==
    [][\A key \in DOMAIN capturedData :
          key \in DOMAIN capturedData' \/ Removing(key)]_vars

-----------------------------------------------------------------------------
(* Properties of the messages of handleRequest (SpecFault)                   *)

\* The updateCapturedItem of the current result returns to handleRequest
UpdateReturns ==
    /\ proc[1].op = "handleRequest"
    /\ proc[1].pc = "h_setHistory"
    /\ proc'[1].pc = "r_getConfig2"

\* The message an update that returned ret for result idx of the request is
\* to be told by
MessageOf(pr, ret, stored) ==
    [type |-> IF ret.rotationDetected THEN "TOKEN_ROTATED" ELSE "DATA_CAPTURED",
     key |-> generateKey(pr.results[pr.idx]),
     data |-> pr.results[pr.idx],
     rotationDetected |-> ret.rotationDetected,
     previousToken |-> ret.previousToken,
     currentData |-> stored[generateKey(pr.results[pr.idx])]]

\* C24: each updateCapturedItem that completes is told by exactly one message,
\* TOKEN_ROTATED on a rotation and DATA_CAPTURED else, with the key, the
\* record, the flag, the previous token and the stored entry; the messages of
\* a request come in the order of its results, and no other step sends one
C24_OneMessagePerUpdate ==
    [][IF UpdateReturns
       THEN /\ proc[1].idx = Cardinality(proc[1].completed) + 1
            /\ proc'[1].completed = proc[1].completed \cup {proc[1].idx}
            /\ sent' = Append(sent, MessageOf(proc[1], proc'[1].ret, capturedData))
       ELSE sent' = sent]_vars

\* A request has been handled whose update rotated the token an earlier
\* request had stored: a DATA_CAPTURED and then a TOKEN_ROTATED were sent
C24_Witness ==
    /\ proc[1].pc = "done"
    /\ proc[1].op = "handleRequest"
    /\ proc[1].outcome = "returned"
    /\ Len(sent) = 2
    /\ sent[1].type = "DATA_CAPTURED"
    /\ sent[2].type = "TOKEN_ROTATED"
    /\ sent[2].previousToken.value = sent[1].data.value

-----------------------------------------------------------------------------
(* Properties of trackApiRequest given a URL that does not parse (SpecPages) *)

\* trackApiRequest is called on process 1 with a URL that does not parse
TrackCalledUnparsed ==
    /\ calls' # calls
    /\ proc'[1].op = "trackApiRequest"
    /\ ~proc'[1].details.url.valid

\* C25: trackApiRequest given a URL that does not parse returns at once,
\* without an error and without a write: the tracker is as it was and holds
\* no new bucket
C25_UnparsedUrlSkipped ==
    [][TrackCalledUnparsed =>
          /\ proc'[1].pc = "done"
          /\ proc'[1].outcome = "skipped"
          /\ UNCHANGED <<capturedData, expiredTokens, history, apiTracker,
                         config, sent, notified>>]_vars

\* A call for a page domain without a bucket, with a URL that does not parse,
\* has returned and the tracker of 50 buckets holds none for it
C25_Witness ==
    /\ proc[1].pc = "done"
    /\ proc[1].op = "trackApiRequest"
    /\ proc[1].outcome = "skipped"
    /\ ~proc[1].details.url.valid
    /\ Len(apiTracker) = MAX_TRACKED_DOMAINS
    /\ ~ObjHas(apiTracker, proc[1].pageDomain)

-----------------------------------------------------------------------------
(* Properties of detectAuthType (SpecAuthType)                               *)

\* detectAuthType has been called and has returned
AuthDetected == proc[1].pc = "done" /\ proc[1].op = "detectAuthType"

\* The shapes of the values of the headers that tell auth, in list order
RecognizedShapes(shapes) ==
    [i \in 1..Len(SelectSeq(shapes, LAMBDA s : s[1] # str_Accept)) |->
        SelectSeq(shapes, LAMBDA s : s[1] # str_Accept)[i][2]]

NoAuth == [hasAuth |-> FALSE, authType |-> Null]
AuthOf(type) == [hasAuth |-> TRUE, authType |-> [value |-> type]]

\* C26: auth detection gives bearer or basic when the value of a recognized
\* header has that prefix, token when a recognized header carries a non-empty
\* value without such a prefix, and no auth otherwise
C26_AuthTypeByPrefix ==
    AuthDetected =>
        LET found == Range(RecognizedShapes(proc[1].details.shapes))
        IN  IF found \cap {"bearer", "basic"} # {}
            THEN proc[1].ret \in {AuthOf(type) : type \in found \cap {"bearer", "basic"}}
            ELSE IF "other" \in found THEN proc[1].ret = AuthOf("token")
            ELSE proc[1].ret = NoAuth

\* C26, amended: the first recognized header of the list decides: bearer or
\* basic by the prefix of its value, token for any other value, an empty or
\* absent one too; no auth when the list holds no recognized header
C26_FirstAuthHeaderDecides ==
    AuthDetected =>
        LET found == RecognizedShapes(proc[1].details.shapes)
        IN  IF Len(found) = 0 THEN proc[1].ret = NoAuth
            ELSE proc[1].ret = AuthOf(IF found[1] \in {"bearer", "basic"}
                                      THEN found[1] ELSE "token")

\* An X-API-Key header without a value before an Authorization header with a
\* Basic value has given token
C26_Witness ==
    /\ AuthDetected
    /\ proc[1].details.shapes = <<<<str_X_API_Key, "absent">>, <<str_Authorization, "basic">>>>
    /\ proc[1].ret = AuthOf("token")

-----------------------------------------------------------------------------
(* Properties of the history (SpecStorage)                                   *)

\* C28: when updateCapturedItem(K, E) has run alone and returned, whatever it
\* found for K, the history is the one before the call with exactly one entry
\* put at its head (cut to the cap); that entry carries K and the value, type
\* and source of E, and its event is "rotation" if the call reported
\* rotationDetected = true and "capture" if not
C28_OneHistoryEntryPerUpdate ==
    \A p \in Procs :
        UpdateReturned(p) =>
            /\ Len(history) = Min(Len(pre[p].history) + 1, MAX_HISTORY_ITEMS)
            /\ Tail(history) = SubSeq(pre[p].history, 1, Len(history) - 1)
            /\ history[1].key = proc[p].key
            /\ Pick(history[1], {"value", "type", "source"}) =
                  Pick(proc[p].value, {"value", "type", "source"})
            /\ {"value", "type", "source"} \subseteq DOMAIN history[1]
            /\ history[1].event =
                  IF proc[p].ret.rotationDetected THEN "rotation" ELSE "capture"

\* abc123 was stored and logged; the update with xyz789 has returned as a
\* rotation: the history holds two entries, the new one tagged "rotation"
\* above the one tagged "capture"
C28_Witness ==
    /\ UpdateReturned(1)
    /\ proc[1].ret.rotationDetected
    /\ proc[1].value.value = str_xyz789
    /\ Len(pre[1].history) = 1
    /\ Len(history) = 2
    /\ history[1].event = "rotation"
    /\ history[1].value = str_xyz789
    /\ history[2].event = "capture"

-----------------------------------------------------------------------------
(* Properties of the rotation fields (SpecRotation)                          *)

RotationFields == {"previousValue", "previousCapturedAt", "lastRotatedAt"}

\* handleMessage has returned from a message of the given type
MessageReturned(type) ==
    /\ proc[1].pc = "done"
    /\ proc[1].op = "handleMessage"
    /\ TypeOf(proc[1].message) = type

\* C29: with updateCapturedItem, removeCapturedItem and clearAllCapturedData
\* awaited one after the other, a stored entry has previousValue,
\* previousCapturedAt and lastRotatedAt when its rotationCount is at least 1
\* and has none of them when it is 0, and a rotated entry has capturedAt equal
\* to lastRotatedAt; a returned rotation has put the value and capturedAt of
\* the replaced entry in previousValue and previousCapturedAt, and a returned
\* update without rotation, a returned removal and every other key of a
\* returned update leave these fields and the count of an entry as they were
C29_PreviousFieldsFollowRotation ==
    /\ \A key \in DOMAIN capturedData :
          /\ IF CountOf(capturedData[key]) >= 1
             THEN RotationFields \subseteq DOMAIN capturedData[key]
             ELSE RotationFields \cap DOMAIN capturedData[key] = {}
          /\ CountOf(capturedData[key]) >= 1 =>
                capturedData[key].capturedAt = capturedData[key].lastRotatedAt
    /\ UpdateReturned(1) =>
          /\ \A key \in DOMAIN pre[1].capturedData \ {proc[1].key} :
                key \in DOMAIN capturedData
                /\ capturedData[key] = pre[1].capturedData[key]
          /\ proc[1].key \in DOMAIN capturedData
          /\ IF proc[1].ret.rotationDetected
             THEN /\ capturedData[proc[1].key].previousValue =
                        pre[1].capturedData[proc[1].key].value
                  /\ capturedData[proc[1].key].previousCapturedAt =
                        pre[1].capturedData[proc[1].key].capturedAt
                  /\ capturedData[proc[1].key].rotationCount =
                        CountOf(pre[1].capturedData[proc[1].key]) + 1
             ELSE proc[1].key \in DOMAIN pre[1].capturedData =>
                     Pick(capturedData[proc[1].key],
                          RotationFields \cup {"rotationCount", "capturedAt"}) =
                     Pick(pre[1].capturedData[proc[1].key],
                          RotationFields \cup {"rotationCount", "capturedAt"})
    /\ MessageReturned("REMOVE_ITEM") =>
          \A key \in DOMAIN capturedData : capturedData[key] = pre[1].capturedData[key]
    /\ MessageReturned("CLEAR_ALL") => DOMAIN capturedData = {}

\* The entry that held abc123, rotated once to xyz789, has been rotated back
\* to abc123 at time 1: its count is 2, its previous value is xyz789 and not
\* the abc123 of the first rotation, and its previousCapturedAt is the time
\* of the first rotation
C29_Witness ==
    /\ UpdateReturned(1)
    /\ proc[1].key = KeyAbc
    /\ proc[1].ret.rotationDetected
    /\ pre[1].capturedData[KeyAbc].rotationCount = 1
    /\ pre[1].capturedData[KeyAbc].previousValue = str_abc123
    /\ capturedData[KeyAbc].rotationCount = 2
    /\ capturedData[KeyAbc].value = str_abc123
    /\ capturedData[KeyAbc].previousValue = str_xyz789
    /\ capturedData[KeyAbc].previousCapturedAt = 0
    /\ capturedData[KeyAbc].capturedAt = 1
    /\ capturedData[KeyAbc].lastRotatedAt = 1

-----------------------------------------------------------------------------
(* Properties of the auth info of an endpoint (SpecAuthOverlap)              *)

\* Process p completes the write of a request to endpoint key that carries
\* auth of the given type
WritesAuth(p, key, type) ==
    /\ proc[p].pc = "t_setApiTracker"
    /\ proc'[p].pc = "done"
    /\ proc[p].key = key
    /\ TrackedRequest(proc[p].details).auth = [hasAuth |-> TRUE,
                                                authType |-> [value |-> type]]

\* C30: the auth info of an endpoint entry is only upgraded: no step takes an
\* entry with hasAuth = true to another hasAuth or authType, and the write of
\* a request that carries auth gives its hasAuth and authType to an entry
\* with hasAuth = false
C30_AuthOnlyUpgraded ==
    [][\A key \in Keys(EndpointsIn(apiTracker, PageDomain(1)))
                    \cap Keys(EndpointsIn(apiTracker', PageDomain(1))) :
          IF ObjGet(EndpointsIn(apiTracker, PageDomain(1)), key).hasAuth
          THEN /\ ObjGet(EndpointsIn(apiTracker', PageDomain(1)), key).hasAuth
               /\ ObjGet(EndpointsIn(apiTracker', PageDomain(1)), key).authType =
                     ObjGet(EndpointsIn(apiTracker, PageDomain(1)), key).authType
          ELSE \A p \in Procs, type \in {"bearer", "basic", "token"} :
                  WritesAuth(p, key, type) =>
                     /\ ObjGet(EndpointsIn(apiTracker', PageDomain(1)), key).hasAuth
                     /\ ObjGet(EndpointsIn(apiTracker', PageDomain(1)), key).authType =
                           [value |-> type]]_vars

-----------------------------------------------------------------------------
(* Properties of removeCapturedItem (SpecRotation)                           *)

\* Key has an entry in the list
Logged(list, key) == \E i \in 1..Len(list) : list[i].key = key

\* C31: a returned REMOVE_ITEM for K has deleted exactly the entry of K from
\* the map and returned the resulting map, the entries of the other keys, the
\* history and the expired list being as they were; an update for a key that
\* was captured before (the history tells it) and has no entry any more has
\* created an entry with rotationCount 0 and reported rotationDetected = false,
\* whatever its value
C31_RemovalDeletesOneEntry ==
    /\ MessageReturned("REMOVE_ITEM") =>
          /\ DOMAIN capturedData = DOMAIN pre[1].capturedData \ {proc[1].message.key}
          /\ \A key \in DOMAIN capturedData :
                capturedData[key] = pre[1].capturedData[key]
          /\ proc[1].ret = [value |-> capturedData]
          /\ history = pre[1].history
          /\ expiredTokens = pre[1].expiredTokens
    /\ (/\ UpdateReturned(1)
        /\ proc[1].key \notin DOMAIN pre[1].capturedData
        /\ Logged(pre[1].history, proc[1].key))
       => /\ proc[1].ret.rotationDetected = FALSE
          /\ proc[1].ret.previousToken = Null
          /\ capturedData[proc[1].key].rotationCount = 0
          /\ capturedData[proc[1].key].value = proc[1].value.value
          /\ RotationFields \cap DOMAIN capturedData[proc[1].key] = {}
          /\ expiredTokens = pre[1].expiredTokens

\* The entry that held xyz789 after one rotation was removed; the update
\* with abc123 for its key has returned: the entry is new, with count 0 and
\* no rotation reported, and the expired entry of the old rotation is there
C31_Witness ==
    /\ UpdateReturned(1)
    /\ proc[1].key = KeyAbc
    /\ proc[1].value.value = str_abc123
    /\ KeyAbc \notin DOMAIN pre[1].capturedData
    /\ Len(pre[1].expiredTokens) = 1
    /\ pre[1].history[1].event = "rotation"
    /\ capturedData[KeyAbc].rotationCount = 0
    /\ ~proc[1].ret.rotationDetected

-----------------------------------------------------------------------------
(* Properties of the gate of endpoint tracking (SpecGate)                    *)

\* The request is one handleRequest lets through to tracking
TrackedKind(details) ==
    /\ details.url.valid
    /\ ShouldCapture(details.url.hostname, BlockOf(getConfig(config)),
                     AllowOf(getConfig(config)))
    /\ details.type = "xmlhttprequest"
    /\ details.tabId > 0

\* The tab exists and shows a page of a site
SitePage(tab) ==
    /\ ~IsNull(tab)
    /\ "url" \in DOMAIN tab
    /\ tab.url.scheme \notin {str_chrome,
                              <<"c", "h", "r", "o", "m", "e", "-", "e", "x", "t", "e", "n", "s", "i", "o", "n">>,
                              <<"a", "b", "o", "u", "t">>, <<"e", "d", "g", "e">>}
    /\ tab.url.hostname # << >>

\* The monitoring of process p has called trackApiRequest
TrackCalled(p) ==
    /\ proc[p].op = "handleApiMonitoring"
    /\ \/ proc[p].pc \in {"t_getApiTracker", "t_setApiTracker"}
       \/ proc[p].pc = "done" /\ proc[p].outcome = "returned"

\* The gate as the states show it
GateHolds ==
    /\ \A i \in 1..Len(apiQueue) : TrackedKind(apiQueue[i])
    /\ proc[2].op = "handleApiMonitoring" =>
          /\ TrackCalled(2) <=> SitePage(proc[2].item)
          /\ TrackCalled(2) =>
                proc[2].pageDomain # << >>
                /\ proc[2].pageDomain = extractRootDomain(proc[2].item.url.hostname)
    /\ (/\ proc[1].op = "handleRequest"
        /\ proc[1].pc = "done"
        /\ proc[1].details.url.valid
        /\ ShouldCapture(proc[1].details.url.hostname, BlockOf(getConfig(config)),
                         AllowOf(getConfig(config))))
       => /\ proc[1].dispatched
          /\ proc[1].outcome = "returned"
          /\ Cardinality(proc[1].completed) = Len(proc[1].results)

\* The gate as the steps show it: monitoring is started for the request of
\* the step only, and the tracker is written by a monitoring that called
\* trackApiRequest only
GateStep ==
    /\ apiQueue' # apiQueue /\ Len(apiQueue') >= Len(apiQueue) =>
          /\ apiQueue' = Append(apiQueue, proc[1].details)
          /\ TrackedKind(proc[1].details)
    /\ (proc[1].pc = "r_getConfig" /\ proc'[1].pc # "r_getConfig"
        /\ TrackedKind(proc[1].details)) =>
          apiQueue' = Append(apiQueue, proc[1].details)
    /\ apiTracker' # apiTracker =>
          /\ proc[2].pc = "t_setApiTracker"
          /\ SitePage(proc[2].item)
          /\ UNCHANGED <<capturedData, expiredTokens, history>>

\* C32: handleRequest starts the monitoring only for an allowed request of
\* kind xmlhttprequest with tabId > 0, and for each of them; the monitoring
\* calls trackApiRequest exactly when the tab exists, shows no chrome://,
\* chrome-extension://, about: or edge:// page and has a root page domain;
\* no other step changes the endpoint-usage map; and an allowed request is
\* dispatched and its records are stored whatever the monitoring does
C32_TrackingGated == []GateHolds /\ [][GateStep]_vars

\* An XHR of tab 2 to b.io was handled to its end and its token stored, while
\* its monitoring found no tab and tracked nothing
C32_Witness ==
    /\ proc[1].op = "handleRequest"
    /\ proc[1].pc = "done"
    /\ proc[1].details = XhrTo(str_b_io)
    /\ Len(proc[1].results) = 1
    /\ Cardinality(DOMAIN capturedData) = 1
    /\ proc[2].op = "handleApiMonitoring"
    /\ proc[2].outcome = "skipped"
    /\ proc[2].details = XhrTo(str_b_io)
    /\ IsNull(proc[2].item)
    /\ apiTracker = << >>
    /\ apiQueue = << >>

-----------------------------------------------------------------------------
(* Properties of pausing (SpecPause)                                         *)

\* A TOGGLE_ENABLED {enabled: false} has been handled to its end and capture
\* has not been enabled again
PauseHandled ==
    /\ proc[2].pc = "done"
    /\ proc[2].op = "handleMessage"
    /\ proc[2].message = [type |-> "TOGGLE_ENABLED", enabled |-> FALSE]
    /\ ~isEnabled

\* handleRequest is called: a call that is not the message's
RequestCalled ==
    /\ calls' = calls + 1
    /\ proc'[1].op = "handleRequest"
    /\ proc'[2].pc = proc[2].pc

\* C33: pausing stops capture: a request intercepted while the flag is false
\* is dropped at once, before the filter, the dispatcher and the tracking, and
\* once a TOGGLE_ENABLED {enabled: false} has been handled to its end no step,
\* of a request in flight when the toggle arrived either, writes the map, the
\* history or the expired list while the flag stays false
C33_PausingStopsCapture ==
    [][/\ (RequestCalled /\ ~isEnabled) =>
             /\ proc'[1].pc = "done"
             /\ proc'[1].outcome = "skipped"
             /\ ~proc'[1].dispatched
             /\ UNCHANGED <<capturedData, expiredTokens, history, apiTracker, apiQueue>>
       /\ PauseHandled => UNCHANGED <<capturedData, expiredTokens, history>>]_vars

-----------------------------------------------------------------------------
(* Properties of the rotation count (SpecCount)                              *)

\* The number of the entries of the list that have the key
RECURSIVE EntriesOf(_, _)
EntriesOf(list, key) ==
    IF Len(list) = 0 THEN 0
    ELSE (IF Head(list).key = key THEN 1 ELSE 0) + EntriesOf(Tail(list), key)

\* C34: between updateCapturedItem calls awaited one after the other on a
\* store that only such calls have written, with fewer than 50 rotations, the
\* expired list holds as many entries of a key as the rotationCount of the
\* stored entry of the key tells, and every expired entry is of a stored key
C34_CountMatchesExpired ==
    (Quiet(1) /\ Len(expiredTokens) < MAX_EXPIRED_TOKENS) =>
        /\ \A key \in DOMAIN capturedData :
              EntriesOf(expiredTokens, key) = CountOf(capturedData[key])
        /\ \A i \in 1..Len(expiredTokens) :
              expiredTokens[i].key \in DOMAIN capturedData

\* The key that held abc123 and then xyz789 has been rotated again: its count
\* is 2 and the expired list holds two entries of it, next to another key
\* that was never rotated
C34_Witness ==
    /\ UpdateReturned(1)
    /\ calls = 2
    /\ Cardinality(DOMAIN capturedData) = 2
    /\ KeyAbc \in DOMAIN capturedData
    /\ capturedData[KeyAbc].rotationCount = 2
    /\ EntriesOf(expiredTokens, KeyAbc) = 2
    /\ \E key \in DOMAIN capturedData \ {KeyAbc} : capturedData[key].rotationCount = 0

-----------------------------------------------------------------------------
(* Properties of the statistics of a bucket (SpecBuckets)                    *)

\* The counts of the entries lo..hi of the endpoints, added up by halves
RECURSIVE CountsIn(_, _, _)
CountsIn(endpoints, lo, hi) ==
    IF lo > hi THEN 0
    ELSE IF lo = hi THEN endpoints[lo][2].count
    ELSE CountsIn(endpoints, lo, (lo + hi) \div 2)
         + CountsIn(endpoints, (lo + hi) \div 2 + 1, hi)

\* The counts of the entries of a bucket, added up
CountsOfBucket(bucket) == CountsIn(bucket.endpoints, 1, Len(bucket.endpoints))

\* C35: with trackApiRequest and clearApiTracker awaited one after the other,
\* in every bucket stats.uniqueEndpoints is the number of the endpoint
\* entries held, right after an eviction too, every entry has a count of at
\* least 1 and firstSeen <= lastSeen, and the counts of the entries add up to
\* at most totalRequests
C35_BucketStatsConsistent ==
    \A i \in 1..Len(apiTracker) :
        /\ apiTracker[i][2].stats.uniqueEndpoints = Len(apiTracker[i][2].endpoints)
        /\ \A j \in 1..Len(apiTracker[i][2].endpoints) :
              /\ apiTracker[i][2].endpoints[j][2].count >= 1
              /\ apiTracker[i][2].endpoints[j][2].firstSeen
                    <= apiTracker[i][2].endpoints[j][2].lastSeen
        /\ CountsOfBucket(apiTracker[i][2]) <= apiTracker[i][2].totalRequests

\* A new endpoint arrived at a bucket of 200 and one entry was evicted: the
\* bucket holds 200 entries, uniqueEndpoints is 200, and the 201 requests
\* counted are one more than the counts of the entries add up to
C35_Witness ==
    /\ TrackDone(1)
    /\ Len(EndpointsIn(proc[1].tracker, PageDomain(1))) = MAX_ENDPOINTS_PER_DOMAIN
    /\ proc[1].key \notin Keys(EndpointsIn(proc[1].tracker, PageDomain(1)))
    /\ ObjHas(apiTracker, PageDomain(1))
    /\ Len(ObjGet(apiTracker, PageDomain(1)).endpoints) = MAX_ENDPOINTS_PER_DOMAIN
    /\ ObjGet(apiTracker, PageDomain(1)).stats.uniqueEndpoints = MAX_ENDPOINTS_PER_DOMAIN
    /\ ObjGet(apiTracker, PageDomain(1)).totalRequests = MAX_ENDPOINTS_PER_DOMAIN + 1
    /\ CountsOfBucket(ObjGet(apiTracker, PageDomain(1))) = MAX_ENDPOINTS_PER_DOMAIN

-----------------------------------------------------------------------------
(* Properties of the keys of custom rules (SpecCustom)                       *)

\* C36: the records two different custom rules extract from one request with
\* different values get different keys from generateKey, so that handling
\* the request, once or again unchanged, reports no rotation and leaves
\* every rotationCount at 0
C36_CustomRulesDistinctKeys ==
    /\ (proc[1].op = "handleRequest" /\ proc[1].dispatched) =>
          \A i, j \in 1..Len(proc[1].results) :
             (/\ proc[1].results[i].type = str_custom
              /\ proc[1].results[j].type = str_custom
              /\ proc[1].results[i].ruleName # proc[1].results[j].ruleName
              /\ proc[1].results[i].value # proc[1].results[j].value)
             => generateKey(proc[1].results[i]) # generateKey(proc[1].results[j])
    /\ \A i \in 1..Len(sent) : ~sent[i].rotationDetected
    /\ \A key \in DOMAIN capturedData : CountOf(capturedData[key]) = 0

-----------------------------------------------------------------------------
(* Properties of TOGGLE_ENABLED (SpecToggle)                                 *)

\* Process p handles a TOGGLE_ENABLED message
Toggling(p) ==
    proc[p].op = "handleMessage" /\ TypeOf(proc[p].message) = "TOGGLE_ENABLED"

\* C37: TOGGLE_ENABLED {enabled: b} takes effect as asked, whatever other
\* TOGGLE_ENABLED and SET_CONFIG handlers and initialize() calls run beside
\* it: the config it writes has enabled = b, it answers {enabled: b}, and
\* when no handler and no initialize() is in flight the flag in memory is
\* the enabled of the stored config
C37_ToggleTakesEffect ==
    /\ \A p \in Procs :
          /\ (Toggling(p) /\ proc[p].pc = "m_setConfig") =>
                proc[p].data.enabled = proc[p].message.enabled
          /\ (Toggling(p) /\ proc[p].pc = "done") =>
                proc[p].ret = [enabled |-> proc[p].message.enabled]
    /\ ((\A p \in Procs : Quiet(p)) /\ initializing = 0) =>
          isEnabled = getConfig(config).enabled

-----------------------------------------------------------------------------
(* Properties of the custom units of the dispatcher (SpecRules)              *)

\* C38: once an ADD_CUSTOM_RULE or REMOVE_CUSTOM_RULE message has been handled
\* and the initialize() calls the config writes started have ended, whichever
\* ended first, the dispatcher holds one custom unit for each rule of the
\* stored config.rules, in the order of the rules, none twice and none missing
C38_UnitsMirrorRules ==
    (/\ proc[1].pc = "done"
     /\ proc[1].op = "handleMessage"
     /\ TypeOf(proc[1].message) \in {"ADD_CUSTOM_RULE", "REMOVE_CUSTOM_RULE"}
     /\ initializing = 0)
    => /\ Len(customHandlers) = Len(RulesOf(getConfig(config)))
       /\ \A i \in 1..Len(customHandlers) :
             customHandlers[i].rule = RulesOf(getConfig(config))[i]

-----------------------------------------------------------------------------
(* Properties of the start of the service worker (SpecStartup)               *)

\* C39: a request with an Authorization header that the worker handles and
\* hands to its matcher units, be it before the first initialize() has ended,
\* is matched by the built-in units: a handling that has ended has a result
\* for updateCapturedItem
C39_CapturedDuringStartup ==
    (/\ proc[1].pc = "done"
     /\ proc[1].op = "handleRequest"
     /\ proc[1].dispatched
     /\ getHeader(proc[1].details.requestHeaders, str_Authorization) # Null)
    => Len(proc[1].results) > 0

-----------------------------------------------------------------------------
(* Properties of the two path normalizers together (SpecEquivalence)         *)

\* C40: normalizePathPattern applied to a path and normalizeApiPath applied
\* to the part of that path before its first '?' (the whole path when it has
\* no '?') return the same string
C40_NormalizersAgree ==
    (/\ proc[1].pc = "done" /\ proc[1].op = "normalizePathPattern"
     /\ proc[2].pc = "done" /\ proc[2].op = "normalizeApiPath"
     /\ proc[1].key = proc[2].key)
    => proc[1].ret = proc[2].ret

\* Both have returned '/*/*' for a path of two IDs and a query string with a
\* '/' and digits in it
C40_Witness ==
    /\ proc[1].pc = "done" /\ proc[1].op = "normalizePathPattern"
    /\ proc[2].pc = "done" /\ proc[2].op = "normalizeApiPath"
    /\ proc[1].key = <<"/">> \o seg_digits \o <<"/">> \o seg_long
                        \o <<"?", "n", "/", "4", "2">>
    /\ proc[1].ret = [value |-> <<"/", "*", "/", "*">>]
    /\ proc[2].ret = [value |-> <<"/", "*", "/", "*">>]

=============================================================================
